---- MODULE Spec2Model ----
(***************************************************************************)
(* A model of dict.c / dict.h: the chained hash table with incremental     *)
(* rehashing, iterators and the reverse-binary scan cursor.                *)
(*                                                                         *)
(* A dict is a record [ht, rehashidx, iterators, abort].  ht is a function *)
(* on {0,1}; each table is a record [table, size, sizemask, used, addr]   *)
(* where table maps a bucket index 0..size-1 to its chain, a sequence of   *)
(* entries with the chain head first (entry->next of the element at        *)
(* position p is the element at position p+1, NULL after the last one).    *)
(* addr is the address zcalloc returned for the bucket array (0 = NULL).   *)
(* abort records a failed assert() (the process is gone after it).         *)
(***************************************************************************)
EXTENDS Integers, Sequences, FiniteSets, TLC

\* ------------------------------------------------------------- bounds
\* Keys and values the caller uses, the largest size it passes to
\* dictExpand, the largest n it passes to dictRehash, and the number of
\* addresses the allocator hands out for bucket arrays.
NumKeys == 4
MaxExpandSize == 12
MaxRehashN == 2
NumAddr == 3
\* The keys of the caller that scans
NumScanKeys == 2
\* The keys of the caller that iterates
NumIterKeys == 2
\* The calls that change the tables a caller makes during one iteration
MaxMutations == 2
\* The keys and the values of the caller that stores different values
NumValKeys == 2
NumVals == 2
\* The keys of the caller that samples the dictionary
NumRandomKeys == 3
\* The passes of the outer loop of dictGetRandomKeys that are followed
MaxPasses == 2
\* The keys of the caller that fills a table while resizing is disabled
NumResizeKeys == 5
\* Enough keys to load a table of DICT_HT_INITIAL_SIZE buckets beyond
\* dict_force_resize_ratio entries per bucket
NumForceKeys == 25
\* The keys of the caller that deletes what its iterator returns
NumDelKeys == 3
\* The keys of the caller that uses dictAddRaw and dictReplaceRaw
NumRawKeys == 3
NumBulkKeys == 130

\* ------------------------------------------------- program constants
DICT_OK == 0
DICT_ERR == 1
DICT_HT_INITIAL_SIZE == 4
dict_force_resize_ratio == 5

\* A NULL dictEntry pointer: no place in any chain (pos = 0).
NULL == [t |-> 0, idx |-> 0, pos |-> 0]
\* The v field of an entry that zmalloc returned and nobody has set yet.
UNSET == 0

Keys == 1 .. NumKeys
ScanKeys == 1 .. NumScanKeys
IterKeys == 1 .. NumIterKeys
ValKeys == 1 .. NumValKeys
RandomKeys == 1 .. NumRandomKeys
Vals == 1 .. NumVals
ResizeKeys == 1 .. NumResizeKeys
ForceKeys == 1 .. NumForceKeys
DelKeys == 1 .. NumDelKeys
RawKeys == 1 .. NumRawKeys
BulkKeys == 1 .. NumBulkKeys
\* The val argument of a caller that stores the same value under every key
DefaultVal == 1
Addrs == 1 .. NumAddr
\* The sizes passed to dictExpand: the small ones, then every multiple of 4
ExpandSizes == {s \in 0 .. MaxExpandSize : s < 6 \/ s % 4 = 0 \/ s = MaxExpandSize}

\* The hash values of the keys under the dictType's hashFunction: keys 1, 2
\* and 3 share bucket 1 of a table of size 4; they separate at sizes 8, 16.
\* A key beyond the list hashes to key - 1, as keys 17 to 28 do.
HashValues ==
    <<1, 5, 9, 4, 6, 13, 3, 10, 7, 2, 11, 8, 12, 14, 15, 0, 16, 17, 18, 19, 20,
      21, 22, 23, 24, 25, 26, 27>>

dictHashKey(key) == IF key <= Len(HashValues) THEN HashValues[key] ELSE key - 1

\* Every key the hashFunction is defined on
AllKeys == 1 .. Len(HashValues)

dictCompareKeys(key1, key2) == key1 = key2

\* x & mask for a mask of the form 2^n - 1
BitAnd(x, mask) == x % (mask + 1)

\* ------------------------------------------------------------ tables
_dictReset == [table |-> <<>>, size |-> 0, sizemask |-> 0, used |-> 0, addr |-> 0]

_dictInit == [ht |-> [t \in {0, 1} |-> _dictReset],
              rehashidx |-> -1,
              iterators |-> 0,
              abort |-> "none"]

dictIsRehashing(d) == d.rehashidx # -1

dictSize(d) == d.ht[0].used + d.ht[1].used

dictSlots(d) == d.ht[0].size + d.ht[1].size

\* (mutant) line 1318 with i *= 3
RECURSIVE NextPowerFrom_Triple(_, _)
NextPowerFrom_Triple(i, size) ==
    IF i >= size THEN i ELSE NextPowerFrom_Triple(i * 3, size)

RECURSIVE NextPowerFrom(_, _)
NextPowerFrom(i, size) == IF i >= size THEN i ELSE NextPowerFrom(i * 2, size)

\* The test of line 1314, size >= LONG_MAX, is false of every size a caller
\* of this model passes.
_dictNextPower(size) == NextPowerFrom(DICT_HT_INITIAL_SIZE, size)

\* The addresses zcalloc may return: any address that is not the bucket
\* array of a live table.
FreeAddrs(d) == Addrs \ {d.ht[0].addr, d.ht[1].addr}

\* zcalloc(realsize * sizeof(dictEntry * )): all buckets NULL
NewTable(realsize, a) ==
    [table |-> [i \in 0 .. realsize - 1 |-> <<>>],
     size |-> realsize,
     sizemask |-> realsize - 1,
     used |-> 0,
     addr |-> a]

\* (mutant) line 275 without the dictIsRehashing(d) test
dictExpandOk_NoRehashTest(d, size) == ~(d.ht[0].used > size)

\* dictExpand: the dict after the call, and the return code.
dictExpandOk(d, size) == ~(dictIsRehashing(d) \/ d.ht[0].used > size)

dictExpandRet(d, size) == IF dictExpandOk(d, size) THEN DICT_OK ELSE DICT_ERR

\* (mutant) without line 307, d->rehashidx = 0
dictExpand_NoRehashStart(d, size, a) ==
    LET n == NewTable(_dictNextPower(size), a) IN
    IF ~dictExpandOk(d, size) THEN d
    ELSE IF d.ht[0].addr = 0
         THEN [d EXCEPT !.ht[0] = n]
         ELSE [d EXCEPT !.ht[1] = n]

dictExpand(d, size, a) ==
    LET n == NewTable(_dictNextPower(size), a) IN
    IF ~dictExpandOk(d, size) THEN d
    ELSE IF d.ht[0].addr = 0
         THEN [d EXCEPT !.ht[0] = n]
         ELSE [d EXCEPT !.ht[1] = n, !.rehashidx = 0]

\* (mutant) line 243 without the dict_can_resize test
dictResizeOk_NoCanResizeTest(d, can_resize) == ~dictIsRehashing(d)

dictResizeOk(d, can_resize) == ~(~can_resize \/ dictIsRehashing(d))

dictResizeMinimal(d) ==
    IF d.ht[0].used < DICT_HT_INITIAL_SIZE THEN DICT_HT_INITIAL_SIZE
    ELSE d.ht[0].used

dictResizeRet(d, can_resize) ==
    IF ~dictResizeOk(d, can_resize) THEN DICT_ERR
    ELSE dictExpandRet(d, dictResizeMinimal(d))

dictResize(d, can_resize, a) ==
    IF ~dictResizeOk(d, can_resize) THEN d
    ELSE dictExpand(d, dictResizeMinimal(d), a)

\* --------------------------------------------------------- rehashing
\* The first index >= i of a non-NULL bucket of ht[0]; ht[0].size when the
\* loop of line 359 runs off the end of the array.
RECURSIVE SkipEmpty(_, _)
SkipEmpty(ht0, i) ==
    IF i >= ht0.size THEN ht0.size
    ELSE IF ht0.table[i] # <<>> THEN i
    ELSE SkipEmpty(ht0, i + 1)

\* (mutant) the entries keep the index they had under the mask of half the size
RECURSIVE MoveChain_HalfMask(_, _)
MoveChain_HalfMask(chain, ht1) ==
    IF chain = <<>> THEN ht1
    ELSE LET de == Head(chain)
             h == BitAnd(dictHashKey(de.key), ht1.sizemask \div 2)
         IN MoveChain_HalfMask(Tail(chain),
                               [ht1 EXCEPT !.table[h] = <<de>> \o @, !.used = @ + 1])

\* Lines 367-390: the chain de is moved entry by entry, each entry becoming
\* the head of its bucket of ht[1].
RECURSIVE MoveChain(_, _)
MoveChain(chain, ht1) ==
    IF chain = <<>> THEN ht1
    ELSE LET de == Head(chain)
             h == BitAnd(dictHashKey(de.key), ht1.sizemask)
         IN MoveChain(Tail(chain),
                      [ht1 EXCEPT !.table[h] = <<de>> \o @, !.used = @ + 1])

\* (mutant) line 385, d->ht[0].used--, is missing
RehashBucket_UsedKept(d, idx) ==
    [d EXCEPT !.ht[1] = MoveChain(d.ht[0].table[idx], d.ht[1]),
              !.ht[0].table[idx] = <<>>,
              !.rehashidx = idx + 1]

\* (mutant) the loop of line 370 ends after its first pass: the entries
\* chained after the head are lost
RehashBucket_HeadOnly(d, idx) ==
    LET chain == d.ht[0].table[idx] IN
    [d EXCEPT !.ht[1] = MoveChain(<<Head(chain)>>, d.ht[1]),
              !.ht[0].used = @ - Len(chain),
              !.ht[0].table[idx] = <<>>,
              !.rehashidx = idx + 1]

RehashBucket(d, idx) ==
    LET chain == d.ht[0].table[idx] IN
    [d EXCEPT !.ht[1] = MoveChain(chain, d.ht[1]),
              !.ht[0].used = @ - Len(chain),
              !.ht[0].table[idx] = <<>>,
              !.rehashidx = idx + 1]

\* (mutant) line 345, _dictReset(&d->ht[1]), is missing
RehashComplete_NoReset(d) ==
    [d EXCEPT !.ht[0] = d.ht[1], !.rehashidx = -1]

\* Lines 339-350: ht[1] takes the place of ht[0].
RehashComplete(d) ==
    [d EXCEPT !.ht[0] = d.ht[1], !.ht[1] = _dictReset, !.rehashidx = -1]

\* (mutant) a pass of the loop that finds the bucket at rehashidx empty goes
\* past it and is used up
RECURSIVE dictRehashLoop_EmptyCounts(_, _)
dictRehashLoop_EmptyCounts(d, n) ==
    IF n = 0 THEN [d |-> d, ret |-> 1]
    ELSE IF d.ht[0].used = 0 THEN [d |-> RehashComplete(d), ret |-> 0]
    ELSE IF ~(d.ht[0].size > d.rehashidx)
         THEN [d |-> [d EXCEPT !.abort = "assert_rehashidx"], ret |-> 0]
    ELSE IF d.ht[0].table[d.rehashidx] = <<>>
         THEN dictRehashLoop_EmptyCounts([d EXCEPT !.rehashidx = @ + 1], n - 1)
    ELSE dictRehashLoop_EmptyCounts(RehashBucket(d, d.rehashidx), n - 1)

\* The while(n--) loop of dictRehash; res is [d, ret].
RECURSIVE dictRehashLoop(_, _)
dictRehashLoop(d, n) ==
    IF n = 0 THEN [d |-> d, ret |-> 1]
    ELSE IF d.ht[0].used = 0 THEN [d |-> RehashComplete(d), ret |-> 0]
    ELSE IF ~(d.ht[0].size > d.rehashidx)
         THEN [d |-> [d EXCEPT !.abort = "assert_rehashidx"], ret |-> 0]
    ELSE LET Move(idx) ==
                 IF idx >= d.ht[0].size
                 THEN [d |-> [d EXCEPT !.abort = "read_past_table"], ret |-> 0]
                 ELSE dictRehashLoop(RehashBucket(d, idx), n - 1)
         IN Move(SkipEmpty(d.ht[0], d.rehashidx))

dictRehashRes(d, n) ==
    IF ~dictIsRehashing(d) THEN [d |-> d, ret |-> 0]
    ELSE dictRehashLoop(d, n)

dictRehash(d, n) == dictRehashRes(d, n).d

\* (mutant) the step is taken whatever d->iterators is
_dictRehashStep_IgnoresIterators(d) == dictRehash(d, 1)

\* (mutant) the step moves nothing
_dictRehashStep_NoStep(d) == d

_dictRehashStep(d) == IF d.iterators = 0 THEN dictRehash(d, 1) ELSE d

\* if (dictIsRehashing(d)) _dictRehashStep(d);
RehashStepIfRehashing(d) == IF dictIsRehashing(d) THEN _dictRehashStep(d) ELSE d

\* ------------------------------------------------------------ lookup
\* The position in chain of the first entry whose key compares equal, or 0.
RECURSIVE ChainPos(_, _, _)
ChainPos(chain, key, p) ==
    IF p > Len(chain) THEN 0
    ELSE IF dictCompareKeys(key, chain[p].key) THEN p
    ELSE ChainPos(chain, key, p + 1)

\* The for (table = 0; table <= 1; table++) loop shared by dictFind,
\* dictGenericDelete and _dictKeyIndex: the place [t, idx, pos] of the first
\* match, or NULL.
LookupIn(d, key, t) ==
    LET idx == BitAnd(dictHashKey(key), d.ht[t].sizemask) IN
    [t |-> t, idx |-> idx, pos |-> ChainPos(d.ht[t].table[idx], key, 1)]

\* (mutant) the loop stops after table 0 even when a rehash is in flight
Lookup_FirstTableOnly(d, key) ==
    LET First(l0) == IF l0.pos # 0 THEN l0 ELSE NULL
    IN First(LookupIn(d, key, 0))

Lookup(d, key) ==
    LET Second(l1) == IF l1.pos # 0 THEN l1 ELSE NULL
        First(l0) == IF l0.pos # 0 THEN l0
                     ELSE IF ~dictIsRehashing(d) THEN NULL
                     ELSE Second(LookupIn(d, key, 1))
    IN First(LookupIn(d, key, 0))

\* (mutant) line 1302 comparing used with ratio * size
_dictExpandIfNeeded_ExactRatio(d, can_resize, a) ==
    IF dictIsRehashing(d) THEN d
    ELSE IF d.ht[0].size = 0 THEN dictExpand(d, DICT_HT_INITIAL_SIZE, a)
    ELSE IF d.ht[0].used >= d.ht[0].size
            /\ (can_resize
                \/ d.ht[0].used > dict_force_resize_ratio * d.ht[0].size)
         THEN dictExpand(d, d.ht[0].used * 2, a)
    ELSE d

\* (mutant) line 1300 with used > size
_dictExpandIfNeeded_Above(d, can_resize, a) ==
    IF dictIsRehashing(d) THEN d
    ELSE IF d.ht[0].size = 0 THEN dictExpand(d, DICT_HT_INITIAL_SIZE, a)
    ELSE IF d.ht[0].used > d.ht[0].size
            /\ (can_resize
                \/ d.ht[0].used \div d.ht[0].size > dict_force_resize_ratio)
         THEN dictExpand(d, d.ht[0].used * 2, a)
    ELSE d

_dictExpandIfNeeded(d, can_resize, a) ==
    IF dictIsRehashing(d) THEN d
    ELSE IF d.ht[0].size = 0 THEN dictExpand(d, DICT_HT_INITIAL_SIZE, a)
    ELSE IF d.ht[0].used >= d.ht[0].size
            /\ (can_resize
                \/ d.ht[0].used \div d.ht[0].size > dict_force_resize_ratio)
         THEN dictExpand(d, d.ht[0].used * 2, a)
    ELSE d

\* (mutant) the loop of lines 1338-1348 looks into ht[0] only
_dictKeyIndex_FirstTableOnly(d, key, can_resize, a) ==
    LET Search(d1) ==
            [d |-> d1,
             idx |-> IF LookupIn(d1, key, 0).pos # 0 THEN -1
                     ELSE BitAnd(dictHashKey(key),
                                 d1.ht[IF dictIsRehashing(d1) THEN 1 ELSE 0].sizemask)]
    IN Search(_dictExpandIfNeeded(d, can_resize, a))

\* _dictKeyIndex: [d, idx]; idx is -1 when the key is already there.  (In the
\* definitions below a result used several times is passed to a local
\* operator, which is the C local variable holding it.)
_dictKeyIndex(d, key, can_resize, a) ==
    LET Search(d1) ==
            [d |-> d1,
             idx |-> IF Lookup(d1, key) # NULL THEN -1
                     ELSE BitAnd(dictHashKey(key),
                                 d1.ht[IF dictIsRehashing(d1) THEN 1 ELSE 0].sizemask)]
    IN Search(_dictExpandIfNeeded(d, can_resize, a))

\* (mutant) line 533 with ht = &d->ht[0] in both cases
InsertEntry_FirstTable(d, key, index) ==
    LET Link(t) ==
            [d |-> [d EXCEPT !.ht[t].table[BitAnd(index, d.ht[t].sizemask)] =
                                 <<[key |-> key, val |-> UNSET]>> \o @,
                             !.ht[t].used = @ + 1],
             entry |-> [t |-> t, idx |-> BitAnd(index, d.ht[t].sizemask), pos |-> 1]]
    IN Link(0)

\* (mutant) without line 542, ht->used++
InsertEntry_UsedKept(d, key, index) ==
    LET Link(t) ==
            [d |-> [d EXCEPT !.ht[t].table[index] =
                                 <<[key |-> key, val |-> UNSET]>> \o @],
             entry |-> [t |-> t, idx |-> index, pos |-> 1]]
    IN Link(IF dictIsRehashing(d) THEN 1 ELSE 0)

\* Lines 533-547 of dictAddRaw: the new entry becomes the head of its bucket.
InsertEntry(d, key, index) ==
    LET Link(t) ==
            [d |-> [d EXCEPT !.ht[t].table[index] =
                                 <<[key |-> key, val |-> UNSET]>> \o @,
                             !.ht[t].used = @ + 1],
             entry |-> [t |-> t, idx |-> index, pos |-> 1]]
    IN Link(IF dictIsRehashing(d) THEN 1 ELSE 0)

\* dictAddRaw: [d, entry]; entry is the place of the new entry or NULL.
dictAddRaw(d, key, can_resize, a) ==
    LET Store(ki) ==
            IF ki.idx = -1 THEN [d |-> ki.d, entry |-> NULL]
            ELSE InsertEntry(ki.d, key, ki.idx)
        AfterStep(d1) ==
            IF d1.abort # "none" THEN [d |-> d1, entry |-> NULL]
            ELSE Store(_dictKeyIndex(d1, key, can_resize, a))
    IN AfterStep(RehashStepIfRehashing(d))

\* dictSetVal(d, entry, val) without a valDup
dictSetVal(d, entry, val) ==
    [d EXCEPT !.ht[entry.t].table[entry.idx][entry.pos].val = val]

\* (mutant) a failed dictAddRaw still stores val in the entry of the key
dictAddRes_Overwrites(d, key, val, can_resize, a) ==
    LET SetVal(r) ==
            IF r.entry = NULL
            THEN [d |-> IF Lookup(r.d, key) = NULL THEN r.d
                        ELSE dictSetVal(r.d, Lookup(r.d, key), val),
                  ret |-> DICT_ERR]
            ELSE [d |-> dictSetVal(r.d, r.entry, val), ret |-> DICT_OK]
    IN SetVal(dictAddRaw(d, key, can_resize, a))

dictAddRes(d, key, val, can_resize, a) ==
    LET SetVal(r) ==
            IF r.entry = NULL THEN [d |-> r.d, ret |-> DICT_ERR]
            ELSE [d |-> dictSetVal(r.d, r.entry, val), ret |-> DICT_OK]
    IN SetVal(dictAddRaw(d, key, can_resize, a))

\* dictFind: [d, entry]
dictFindRes(d, key) ==
    LET Search(d1) ==
            IF d1.abort # "none" THEN [d |-> d1, entry |-> NULL]
            ELSE [d |-> d1, entry |-> Lookup(d1, key)]
    IN IF d.ht[0].size = 0 THEN [d |-> d, entry |-> NULL]
       ELSE Search(RehashStepIfRehashing(d))

\* dictReplaceRaw: [d, entry], the entry of the key, found or added
dictReplaceRawRes(d, key, can_resize, a) ==
    LET Found(f) ==
            IF f.entry # NULL \/ f.d.abort # "none" THEN f
            ELSE dictAddRaw(f.d, key, can_resize, a)
    IN Found(dictFindRes(d, key))

EntryAt(d, e) == d.ht[e.t].table[e.idx][e.pos]

\* dictFetchValue: [d, val], val the value of the entry dictFind returns, 0
\* for NULL
dictFetchValueRes(d, key) ==
    LET Val(f) == [d |-> f.d,
                   val |-> IF f.entry = NULL THEN 0 ELSE EntryAt(f.d, f.entry).val]
    IN Val(dictFindRes(d, key))

\* The calls dictReplace makes into the dictType's value functions, in the
\* order it makes them: dictSetVal (valDup when the type has one, else the
\* plain store) and dictFreeVal (valDestructor).
SetValCall(val) == [call |-> "dictSetVal", val |-> val]

FreeValCall(val) == [call |-> "dictFreeVal", val |-> val]

\* (mutant) the value is freed through entry after dictSetVal has stored val
\* in it, not through the copy auxentry taken before
dictReplaceRes_FreesThroughEntry(d, key, val, can_resize, a) ==
    LET Update(f) ==
            IF f.d.abort # "none"
            THEN [d |-> f.d, ret |-> 0, freed |-> <<>>, calls |-> <<>>]
            ELSE [d |-> dictSetVal(f.d, f.entry, val), ret |-> 0,
                  freed |-> <<EntryAt(dictSetVal(f.d, f.entry, val), f.entry).val>>,
                  calls |-> <<SetValCall(val),
                              FreeValCall(EntryAt(dictSetVal(f.d, f.entry, val),
                                                  f.entry).val)>>]
        AfterAdd(r) ==
            IF r.d.abort # "none"
            THEN [d |-> r.d, ret |-> 1, freed |-> <<>>, calls |-> <<>>]
            ELSE IF r.ret = DICT_OK
            THEN [d |-> r.d, ret |-> 1, freed |-> <<>>, calls |-> <<SetValCall(val)>>]
            ELSE Update(dictFindRes(r.d, key))
    IN AfterAdd(dictAddRes(d, key, val, can_resize, a))

\* (mutant) lines 592 and 594 swapped: dictFreeVal before dictSetVal
dictReplaceRes_FreesFirst(d, key, val, can_resize, a) ==
    LET Update(f) ==
            IF f.d.abort # "none"
            THEN [d |-> f.d, ret |-> 0, freed |-> <<>>, calls |-> <<>>]
            ELSE [d |-> dictSetVal(f.d, f.entry, val), ret |-> 0,
                  freed |-> <<EntryAt(f.d, f.entry).val>>,
                  calls |-> <<FreeValCall(EntryAt(f.d, f.entry).val),
                              SetValCall(val)>>]
        AfterAdd(r) ==
            IF r.d.abort # "none"
            THEN [d |-> r.d, ret |-> 1, freed |-> <<>>, calls |-> <<>>]
            ELSE IF r.ret = DICT_OK
            THEN [d |-> r.d, ret |-> 1, freed |-> <<>>, calls |-> <<SetValCall(val)>>]
            ELSE Update(dictFindRes(r.d, key))
    IN AfterAdd(dictAddRes(d, key, val, can_resize, a))

\* dictReplace: [d, ret, freed, calls]; freed is the sequence of the values
\* the valDestructor of the dictType was called with (dictFreeVal, line 594,
\* on the copy auxentry of the entry as it was before dictSetVal), calls the
\* value functions called, in order (line 484 of dictAdd, lines 592 and 594).
dictReplaceRes(d, key, val, can_resize, a) ==
    LET Update(f) ==
            IF f.d.abort # "none"
            THEN [d |-> f.d, ret |-> 0, freed |-> <<>>, calls |-> <<>>]
            ELSE [d |-> dictSetVal(f.d, f.entry, val), ret |-> 0,
                  freed |-> <<EntryAt(f.d, f.entry).val>>,
                  calls |-> <<SetValCall(val),
                              FreeValCall(EntryAt(f.d, f.entry).val)>>]
        AfterAdd(r) ==
            IF r.d.abort # "none"
            THEN [d |-> r.d, ret |-> 1, freed |-> <<>>, calls |-> <<>>]
            ELSE IF r.ret = DICT_OK
            THEN [d |-> r.d, ret |-> 1, freed |-> <<>>, calls |-> <<SetValCall(val)>>]
            ELSE Update(dictFindRes(r.d, key))
    IN AfterAdd(dictAddRes(d, key, val, can_resize, a))

RemoveAt(chain, p) == SubSeq(chain, 1, p - 1) \o SubSeq(chain, p + 1, Len(chain))

\* (mutant) the entry is unlinked and ht[t].used is left as it was
Unlink_UsedKept(d, he) ==
    IF he = NULL THEN [d |-> d, ret |-> DICT_ERR]
    ELSE [d |-> [d EXCEPT !.ht[he.t].table[he.idx] = RemoveAt(@, he.pos)],
          ret |-> DICT_OK]

\* (mutant) the bucket is emptied: the entries chained after and before he go
\* with it
Unlink_WholeChain(d, he) ==
    IF he = NULL THEN [d |-> d, ret |-> DICT_ERR]
    ELSE [d |-> [d EXCEPT !.ht[he.t].table[he.idx] = <<>>,
                          !.ht[he.t].used = @ - 1],
          ret |-> DICT_OK]

\* Lines 651-696 of dictGenericDelete: the entry at he is unlinked and freed.
Unlink(d, he) ==
    IF he = NULL THEN [d |-> d, ret |-> DICT_ERR]
    ELSE [d |-> [d EXCEPT !.ht[he.t].table[he.idx] = RemoveAt(@, he.pos),
                          !.ht[he.t].used = @ - 1],
          ret |-> DICT_OK]

\* dictGenericDelete: [d, ret]
dictDeleteRes(d, key) ==
    LET Search(d1) ==
            IF d1.abort # "none" THEN [d |-> d1, ret |-> DICT_ERR]
            ELSE Unlink(d1, Lookup(d1, key))
    IN IF d.ht[0].size = 0 THEN [d |-> d, ret |-> DICT_ERR]
       ELSE Search(RehashStepIfRehashing(d))

\* The for loop of _dictClear from bucket i on: [ht, freed], freed the
\* entries passed to dictFreeKey, dictFreeVal and zfree, in order.
RECURSIVE _dictClearLoop(_, _, _)
_dictClearLoop(ht, i, freed) ==
    IF ~(i < ht.size /\ ht.used > 0) THEN [ht |-> ht, freed |-> freed]
    ELSE _dictClearLoop([ht EXCEPT !.table[i] = <<>>,
                                   !.used = @ - Len(ht.table[i])],
                        i + 1, freed \o ht.table[i])

\* (mutant) the loop of line 751 starts at bucket 1
_dictClear_FromOne(ht) ==
    [ht |-> _dictReset, freed |-> _dictClearLoop(ht, 1, <<>>).freed]

\* _dictClear: the table is freed and reset whatever the loop left in it
_dictClear(ht) ==
    [ht |-> _dictReset, freed |-> _dictClearLoop(ht, 0, <<>>).freed]

\* _dictClear on both tables, then the resets of dictEmpty
dictEmpty(d) ==
    [d EXCEPT !.ht = [t \in {0, 1} |-> _dictClear(d.ht[t]).ht],
              !.rehashidx = -1,
              !.iterators = 0]

\* The entries dictEmpty destroys, in order
dictEmptyFreed(d) == _dictClear(d.ht[0]).freed \o _dictClear(d.ht[1]).freed

\* -------------------------------------------------------------- scan
\* unsigned long and long long are 64 bits wide: a word is the tuple of its
\* four 16-bit limbs, the lowest first.
LimbBits == 16

LimbBase == 65536

\* 2^n for the shift counts within a limb, 0 <= n <= 16
PowersOf2 == <<1, 2, 4, 8, 16, 32, 64, 128, 256, 512, 1024, 2048, 4096, 8192,
               16384, 32768, 65536>>

Pow2(n) == PowersOf2[n + 1]

\* The word of an integer 0 <= n < 2^31
ToWord(n) == <<n % LimbBase, n \div LimbBase, 0, 0>>

\* The value of a word, or -1 when it is 2^31 or more
FromWord(w) ==
    IF w[3] = 0 /\ w[4] = 0 /\ w[2] < (LimbBase \div 2) THEN w[1] + (LimbBase * w[2])
    ELSE -1

\* a & b on limbs
RECURSIVE LimbAnd(_, _)
LimbAnd(a, b) ==
    IF a = 0 \/ b = 0 THEN 0
    ELSE ((a % 2) * (b % 2)) + (2 * LimbAnd(a \div 2, b \div 2))

AndOf(a, b, x) == x
OrOf(a, b, x) == a + b - x
XorOf(a, b, x) == a + b - 2 * x

WordNot(a) == <<LimbBase - 1 - a[1], LimbBase - 1 - a[2],
                LimbBase - 1 - a[3], LimbBase - 1 - a[4]>>
WordAnd(a, b) == <<LimbAnd(a[1], b[1]), LimbAnd(a[2], b[2]),
                   LimbAnd(a[3], b[3]), LimbAnd(a[4], b[4])>>
WordOr(a, b) == <<OrOf(a[1], b[1], LimbAnd(a[1], b[1])), OrOf(a[2], b[2], LimbAnd(a[2], b[2])),
                  OrOf(a[3], b[3], LimbAnd(a[3], b[3])), OrOf(a[4], b[4], LimbAnd(a[4], b[4]))>>
WordXor(a, b) == <<XorOf(a[1], b[1], LimbAnd(a[1], b[1])), XorOf(a[2], b[2], LimbAnd(a[2], b[2])),
                   XorOf(a[3], b[3], LimbAnd(a[3], b[3])), XorOf(a[4], b[4], LimbAnd(a[4], b[4]))>>

\* Limb j of a word (0 the lowest), fill outside the word
Limb(a, j, fill) == IF j < 0 \/ j > 3 THEN fill ELSE a[j + 1]

ShlLimb(a, i, q, r) ==
    ((Limb(a, i - q, 0) * Pow2(r)) % LimbBase) + (Limb(a, i - q - 1, 0) \div Pow2(LimbBits - r))

\* a << n, 0 < n < 64
WordShl(a, n) ==
    <<ShlLimb(a, 0, n \div LimbBits, n % LimbBits), ShlLimb(a, 1, n \div LimbBits, n % LimbBits),
      ShlLimb(a, 2, n \div LimbBits, n % LimbBits), ShlLimb(a, 3, n \div LimbBits, n % LimbBits)>>

ShrLimb(a, i, q, r, fill) ==
    (Limb(a, i + q, fill) \div Pow2(r)) + ((Limb(a, i + q + 1, fill) % Pow2(r)) * Pow2(LimbBits - r))

ShrFill(a, i, n, fill) == ShrLimb(a, i, n \div LimbBits, n % LimbBits, fill)

\* a >> n of an unsigned word, 0 < n < 64
WordShr(a, n) ==
    <<ShrFill(a, 0, n, 0), ShrFill(a, 1, n, 0), ShrFill(a, 2, n, 0), ShrFill(a, 3, n, 0)>>

\* a + b modulo 2^64
WordAdd(a, b) ==
    LET S4(c3) == (a[4] + b[4] + c3) % LimbBase
        S3(c2) == <<(a[3] + b[3] + c2) % LimbBase, S4((a[3] + b[3] + c2) \div LimbBase)>>
        S2(c1) == <<(a[2] + b[2] + c1) % LimbBase>> \o S3((a[2] + b[2] + c1) \div LimbBase)
    IN <<(a[1] + b[1]) % LimbBase>> \o S2((a[1] + b[1]) \div LimbBase)

\* One turn of the loop of rev() on <<mask, v>>, s already halved:
\* mask ^= (mask << s); v = ((v >> s) & mask) | ((v << s) & ~mask);
RevStep(s, mv) ==
    LET Swap(mask1) ==
            <<mask1, WordOr(WordAnd(WordShr(mv[2], s), mask1),
                            WordAnd(WordShl(mv[2], s), WordNot(mask1)))>>
    IN Swap(WordXor(mv[1], WordShl(mv[1], s)))

\* while ((s >>= 1) > 0) { ... }
RECURSIVE RevLoop(_, _)
RevLoop(s, mv) ==
    IF s \div 2 > 0 THEN RevLoop(s \div 2, RevStep(s \div 2, mv)) ELSE mv[2]

rev(v) == RevLoop(4 * LimbBits, <<WordNot(ToWord(0)), v>>)

\* Lines 1273-1282: v |= ~m0; v = rev(v); v++; v = rev(v);
NextCursorWord(v, m0) == rev(WordAdd(rev(WordOr(v, WordNot(m0))), ToWord(1)))

\* NextCursorWord on the masks of the tables dictExpand can be asked for and
\* the cursors dictScan reaches with them, computed once.
Masks ==
    {m \in 1 .. _dictNextPower(MaxExpandSize) - 1 :
        \E n \in 1 .. LimbBits : m = Pow2(n) - 1}

MaxCursor == 2 * _dictNextPower(MaxExpandSize) - 1

NextCursorTable ==
    [m0 \in Masks, v \in 0 .. MaxCursor |->
        FromWord(NextCursorWord(ToWord(v), ToWord(m0)))]

\* (mutant) the cursor is incremented without reversing its bits
NextCursor_PlainIncrement(v, m0) == BitAnd(v + 1, m0)

\* (mutant) the reversed cursor is incremented twice
NextCursor_Twice(v, m0) ==
    IF m0 \in Masks /\ v <= MaxCursor
    THEN NextCursorTable[m0, NextCursorTable[m0, v]]
    ELSE 0

NextCursor(v, m0) ==
    IF m0 \in Masks /\ v <= MaxCursor THEN NextCursorTable[m0, v]
    ELSE FromWord(NextCursorWord(ToWord(v), ToWord(m0)))

ChainKeys(chain) == [p \in 1 .. Len(chain) |-> chain[p].key]

\* Line 1267: v = (((v | m0) + 1) & ~m0) | (v & m0)
NextExpansion(v, m0) ==
    LET Inc(x) == (x - BitAnd(x, m0)) + BitAnd(v, m0)
    IN Inc((v - BitAnd(v, m0)) + m0 + 1)

\* The do ... while of lines 1258-1270: [v, keys]
RECURSIVE ScanExpansions(_, _, _, _, _)
ScanExpansions(t1, v, m0, m1, keys) ==
    LET Again(v1, keys1) ==
            IF BitAnd(v1, m1) - BitAnd(v1, m0) # 0
            THEN ScanExpansions(t1, v1, m0, m1, keys1)
            ELSE [v |-> v1, keys |-> keys1]
    IN Again(NextExpansion(v, m0), keys \o ChainKeys(t1.table[BitAnd(v, m1)]))

\* The rehashing branch of dictScan, t0 the smaller table
ScanBoth(t0, t1, v) ==
    LET Advance(r) == [v |-> NextCursor(r.v, t0.sizemask), keys |-> r.keys]
    IN Advance(ScanExpansions(t1, v, t0.sizemask, t1.sizemask,
                              ChainKeys(t0.table[BitAnd(v, t0.sizemask)])))

\* dictScan: [v, keys], the cursor returned and the keys of the entries
\* passed to fn, in the order of the calls.
dictScanRes(d, v) ==
    IF dictSize(d) = 0 THEN [v |-> 0, keys |-> <<>>]
    ELSE IF ~dictIsRehashing(d)
    THEN [v |-> NextCursor(v, d.ht[0].sizemask),
          keys |-> ChainKeys(d.ht[0].table[BitAnd(v, d.ht[0].sizemask)])]
    ELSE IF d.ht[0].size > d.ht[1].size THEN ScanBoth(d.ht[1], d.ht[0], v)
    ELSE ScanBoth(d.ht[0], d.ht[1], v)

\* (mutant) dictScan takes a rehash step as dictFind does
dictScanDict_Steps(d, v) == IF dictSize(d) = 0 THEN d ELSE RehashStepIfRehashing(d)

\* The dictionary after dictScan(d, v): the function writes to no field of it.
dictScanDict(d, v) == d

SeqRange(q) == {q[i] : i \in 1 .. Len(q)}

\* ------------------------------------------------------- observation
\* The entries of a table, read bucket by bucket (not through the hash).
RECURSIVE ChainsFrom(_, _)
ChainsFrom(ht, i) ==
    IF i >= ht.size THEN <<>> ELSE ht.table[i] \o ChainsFrom(ht, i + 1)

TableEntries(ht) == ChainsFrom(ht, 0)

AllEntries(d) == TableEntries(d.ht[0]) \o TableEntries(d.ht[1])

KeysOf(es) == {es[i].key : i \in 1 .. Len(es)}

StoredKeys(d) == KeysOf(AllEntries(d))

\* The values stored under each key (no value: the key is not stored).
StoredVals(d) ==
    LET es == AllEntries(d) IN
    [k \in AllKeys |-> {es[i].val : i \in {j \in 1 .. Len(es) : es[j].key = k}}]

\* The table whose chains hold the key (key is stored).
HolderOf(d, key) == IF key \in KeysOf(TableEntries(d.ht[0])) THEN 0 ELSE 1

\* zcalloc returning the lowest free address.
LowestFree(d) == {CHOOSE a \in FreeAddrs(d) : \A b \in FreeAddrs(d) : a <= b}

\* --------------------------------------------------------- iterators
\* A dictEntry pointer held by an iterator is the key of the entry it points
\* to, NoEntry for NULL, Freed once the entry has been freed.
NoEntry == 0

Freed == -1

\* hash >> n of a long long (the sign bit fills), 0 < n < 64
WordSar(a, n) ==
    LET Fill(f) == <<ShrFill(a, 0, n, f), ShrFill(a, 1, n, f), ShrFill(a, 2, n, f), ShrFill(a, 3, n, f)>>
    IN Fill(IF a[4] >= LimbBase \div 2 THEN LimbBase - 1 ELSE 0)

\* The seven statements of the hashing step, lines 905-911; the arithmetic
\* of long long wraps modulo 2^64.
Mix1(h) == WordAdd(WordNot(h), WordShl(h, 21))
Mix2(h) == WordXor(h, WordSar(h, 24))
Mix3(h) == WordAdd(WordAdd(h, WordShl(h, 3)), WordShl(h, 8))
Mix4(h) == WordXor(h, WordSar(h, 14))
Mix5(h) == WordAdd(WordAdd(h, WordShl(h, 2)), WordShl(h, 4))
Mix6(h) == WordXor(h, WordSar(h, 28))
Mix7(h) == WordAdd(h, WordShl(h, 31))

\* (mutant) the used counts are left out of the fingerprint
FingerprintIntegers_NoUsed(d) ==
    <<d.ht[0].addr, d.ht[0].size, 0, d.ht[1].addr, d.ht[1].size, 0>>

\* integers[0 .. 5], lines 888-893
FingerprintIntegers(d) ==
    <<d.ht[0].addr, d.ht[0].size, d.ht[0].used,
      d.ht[1].addr, d.ht[1].size, d.ht[1].used>>

\* hash += integers[j] and the hashing step
HashStep(hash, i) == Mix7(Mix6(Mix5(Mix4(Mix3(Mix2(Mix1(WordAdd(hash, ToWord(i)))))))))

\* for (j = 0; j < 6; j++) { ... }, each turn computed before the next
RECURSIVE FingerprintLoop(_, _, _)
FingerprintLoop(hash, integers, j) ==
    IF j > Len(integers) THEN hash
    ELSE CHOOSE r \in {FingerprintLoop(h, integers, j + 1) :
                          h \in {HashStep(hash, integers[j])}} : TRUE

dictFingerprint(d) == FingerprintLoop(ToWord(0), FingerprintIntegers(d), 1)

\* dictGetIterator, and dictGetSafeIterator when safe. fingerprint is not
\* initialised by the code and not read before dictNext sets it.
dictGetIterator(safe) ==
    [state |-> "open", safe |-> safe, table |-> 0, index |-> -1,
     entry |-> NoEntry, nextEntry |-> NoEntry, fingerprint |-> ToWord(0),
     ints |-> <<>>, muts |-> 0, seen |-> {}, n |-> 0, done |-> FALSE]

NoIterator == [dictGetIterator(FALSE) EXCEPT !.state = "none"]

\* !(iter->index == -1 && iter->table == 0)
IterStarted(it) == ~(it.index = -1 /\ it.table = 0)

\* (mutant) without line 973, iter->fingerprint = dictFingerprint(iter->d)
FirstAdvance_NoFingerprint(d, it) ==
    IF IterStarted(it) THEN [d |-> d, it |-> it]
    ELSE IF it.safe THEN [d |-> [d EXCEPT !.iterators = @ + 1], it |-> it]
    ELSE [d |-> d, it |-> it]

\* Lines 969-974: [d, it]
FirstAdvance(d, it) ==
    IF IterStarted(it) THEN [d |-> d, it |-> it]
    ELSE IF it.safe THEN [d |-> [d EXCEPT !.iterators = @ + 1], it |-> it]
    ELSE [d |-> d, it |-> [it EXCEPT !.fingerprint = dictFingerprint(d)]]

HeadKey(chain) == IF chain = <<>> THEN NoEntry ELSE chain[1].key

\* (mutant) the iterator stops at the end of ht[0]
NextBucket_FirstTableOnly(d, it) ==
    IF it.index + 1 >= d.ht[it.table].size
    THEN [it |-> [it EXCEPT !.index = @ + 1], stop |-> TRUE]
    ELSE [it |-> [it EXCEPT !.index = @ + 1,
                            !.entry = HeadKey(d.ht[it.table].table[it.index + 1])],
          stop |-> FALSE]

\* Lines 975-985: [it, stop], the iterator at its next bucket, or stop
NextBucket(d, it) ==
    IF it.index + 1 >= d.ht[it.table].size
    THEN IF dictIsRehashing(d) /\ it.table = 0
         THEN [it |-> [it EXCEPT !.table = 1, !.index = 0,
                                 !.entry = HeadKey(d.ht[1].table[0])],
               stop |-> FALSE]
         ELSE [it |-> [it EXCEPT !.index = @ + 1], stop |-> TRUE]
    ELSE [it |-> [it EXCEPT !.index = @ + 1,
                            !.entry = HeadKey(d.ht[it.table].table[it.index + 1])],
          stop |-> FALSE]

\* The places of the entries of a key
EntryPlaces(d, key) ==
    {pl \in UNION {UNION {{[t |-> t, idx |-> i, pos |-> q] :
                              q \in 1 .. Len(d.ht[t].table[i])} :
                          i \in 0 .. d.ht[t].size - 1} : t \in {0, 1}} :
        d.ht[pl.t].table[pl.idx][pl.pos].key = key}

\* entry->next of the live entry of a key
NextOf(d, key) ==
    LET After(pl) ==
            IF pl.pos < Len(d.ht[pl.t].table[pl.idx])
            THEN d.ht[pl.t].table[pl.idx][pl.pos + 1].key ELSE NoEntry
    IN After(CHOOSE pl \in EntryPlaces(d, key) : TRUE)

\* Line 994 when iter->entry has been freed: the read of entry->next is a
\* use after free. It yields any pointer, or the process dies; the freed
\* entry is what the call returns.
NextOfFreed(d, it) ==
    {[d |-> d, it |-> [it EXCEPT !.nextEntry = x], ret |-> Freed] :
        x \in {NoEntry, Freed} \cup StoredKeys(d)}
    \cup {[d |-> [d EXCEPT !.abort = "use_after_free"], it |-> it, ret |-> NoEntry]}

\* dictNext: the set of [d, it, ret] it can end with
RECURSIVE dictNextLoop(_, _)
EntryFound(d, it) ==
    IF it.entry = NoEntry THEN dictNextLoop(d, it)
    ELSE IF it.entry = Freed THEN NextOfFreed(d, it)
    ELSE {[d |-> d, it |-> [it EXCEPT !.nextEntry = NextOf(d, it.entry)],
           ret |-> it.entry]}

\* (mutant) the else branch of line 987 reads iter->entry->next at the call,
\* not the nextEntry saved by the call before
dictNextLoop_NoSavedNext(d, it) ==
    LET At(fd, b) ==
            IF b.stop THEN {[d |-> fd, it |-> b.it, ret |-> NoEntry]}
            ELSE EntryFound(fd, b.it)
        Moved(f) == At(f.d, NextBucket(f.d, f.it))
    IN IF it.entry = NoEntry THEN Moved(FirstAdvance(d, it))
       ELSE EntryFound(d, [it EXCEPT !.entry = IF @ = Freed THEN Freed
                                               ELSE NextOf(d, @)])

dictNextLoop(d, it) ==
    LET At(fd, b) ==
            IF b.stop THEN {[d |-> fd, it |-> b.it, ret |-> NoEntry]}
            ELSE EntryFound(fd, b.it)
        Moved(f) == At(f.d, NextBucket(f.d, f.it))
    IN IF it.entry = NoEntry THEN Moved(FirstAdvance(d, it))
       ELSE EntryFound(d, [it EXCEPT !.entry = it.nextEntry])

\* dictReleaseIterator
dictReleaseIterator(d, it) ==
    IF ~IterStarted(it) THEN d
    ELSE IF it.safe THEN [d EXCEPT !.iterators = @ - 1]
    ELSE IF it.fingerprint = dictFingerprint(d) THEN d
    ELSE [d EXCEPT !.abort = "assert_fingerprint"]

\* integers[0 .. 5] of dictFingerprint as the caller can read them
TableShape(d) ==
    <<d.ht[0].addr, d.ht[0].size, d.ht[0].used,
      d.ht[1].addr, d.ht[1].size, d.ht[1].used>>

\* The caller's iterator after a call that took the dictionary from d to d2
\* and freed the entries of the keys in freed: the pointers to them dangle,
\* and a change of the tables after the first dictNext is counted.
IterSees(it, d, d2, freed) ==
    LET Noted(changed) ==
            [it EXCEPT !.entry = IF @ \in freed THEN Freed ELSE @,
                       !.nextEntry = IF @ \in freed THEN Freed ELSE @,
                       !.muts = IF changed THEN @ + 1 ELSE @,
                       !.seen = IF changed THEN {} ELSE @,
                       !.n = IF changed THEN 0 ELSE @]
    IN IF it.state # "open" THEN it
       ELSE Noted(IterStarted(it) /\ <<d2.ht, d2.rehashidx>> # <<d.ht, d.rehashidx>>)

\* ------------------------------------------------------------- state
\* dict: the dictionary; dict_can_resize: the global of line 59.
\* Kept by the caller: last, the call it made last and what it returned (for
\* dictReplace also freed, the values its valDestructor was called with, for
\* dictEmpty also freed, the entries its destructors were called with, for
\* dictReleaseIterator also advanced, whether dictNext had been called, for
\* dictRehashMilliseconds also batches, what its dictRehash calls returned,
\* and stopped, whether the time was over before the rehash was complete), and
\* netAdds, the number of its dictAdd calls on an absent key minus the number
\* of its dictDelete calls that returned DICT_OK; ref, the finite map the
\* caller expects the dictionary to hold (0: the key is not there).
\* scan: the caller's position in a scan, v the cursor it passes to its next
\* dictScan call, active from the first call of a scan (cursor 0) until a call
\* returns 0; watch is a key stored at the first call that has since been
\* neither deleted nor passed to fn (0: none), missed the watch of a scan
\* when its last call returned.
\* iter: the caller's iterator (it holds one at a time) with what the caller
\* notes about it: ints, the six integers of the fingerprint at the first
\* dictNext of an unsafe iterator; muts, the number of calls that changed the
\* tables since the first dictNext; seen and n, the keys and the number of the entries
\* returned to a safe iterator while the tables have not changed; done,
\* whether dictNext has returned NULL.
VARIABLES dict, dict_can_resize, last, netAdds, ref, scan, iter

vars == <<dict, dict_can_resize, last, netAdds, ref, scan, iter>>

NoKeys == [k \in AllKeys |-> 0]

Init ==
    /\ dict = _dictInit
    /\ dict_can_resize = TRUE
    /\ last = [op |-> "dictCreate", ret |-> 0]
    /\ netAdds = 0
    /\ ref = NoKeys
    /\ scan = [v |-> 0, active |-> FALSE, watch |-> 0, missed |-> 0]
    /\ iter = NoIterator

Alive == dict.abort = "none"

DictAdd(key, val, a) ==
    \E r \in {dictAddRes(dict, key, val, dict_can_resize, a)} :
    /\ Alive
    /\ dict' = r.d
    /\ last' = [op |-> "dictAdd", ret |-> r.ret]
    /\ netAdds' = IF key \in StoredKeys(dict) THEN netAdds ELSE netAdds + 1
    /\ ref' = IF ref[key] = 0 THEN [ref EXCEPT ![key] = val] ELSE ref
    /\ iter' = IterSees(iter, dict, r.d, {})
    /\ UNCHANGED <<dict_can_resize, scan>>

DictReplace(key, val, a) ==
    \E r \in {dictReplaceRes(dict, key, val, dict_can_resize, a)} :
    /\ Alive
    /\ dict' = r.d
    /\ last' = [op |-> "dictReplace", ret |-> r.ret, freed |-> r.freed]
    /\ netAdds' = IF key \in StoredKeys(dict) THEN netAdds ELSE netAdds + 1
    /\ ref' = [ref EXCEPT ![key] = val]
    /\ iter' = IterSees(iter, dict, r.d, {})
    /\ UNCHANGED <<dict_can_resize, scan>>

DictDelete(key) ==
    \E r \in {dictDeleteRes(dict, key)} :
    /\ Alive
    /\ dict' = r.d
    /\ last' = [op |-> "dictDelete", ret |-> r.ret]
    /\ netAdds' = IF r.ret = DICT_OK THEN netAdds - 1 ELSE netAdds
    /\ ref' = [ref EXCEPT ![key] = 0]
    /\ scan' = IF r.ret = DICT_OK /\ scan.watch = key
               THEN [scan EXCEPT !.watch = 0] ELSE scan
    /\ iter' = IterSees(iter, dict, r.d, IF r.ret = DICT_OK THEN {key} ELSE {})
    /\ UNCHANGED dict_can_resize

\* dictDelete of the entry the caller's safe iterator has just returned. The
\* caller goes on counting what the iterator returns.
DictDeleteReturned ==
    /\ Alive
    /\ iter.state = "open" /\ iter.safe
    /\ last.op = "dictNext" /\ last.ret \in StoredKeys(dict)
    /\ \E r \in {dictDeleteRes(dict, last.ret)} :
          /\ dict' = r.d
          /\ last' = [op |-> "dictDelete", ret |-> r.ret]
          /\ netAdds' = IF r.ret = DICT_OK THEN netAdds - 1 ELSE netAdds
          /\ ref' = [ref EXCEPT ![last.ret] = 0]
          /\ scan' = IF r.ret = DICT_OK /\ scan.watch = last.ret
                     THEN [scan EXCEPT !.watch = 0] ELSE scan
          /\ iter' = [iter EXCEPT !.entry = IF @ = last.ret THEN Freed ELSE @,
                                  !.nextEntry = IF @ = last.ret THEN Freed ELSE @]
          /\ UNCHANGED dict_can_resize

\* dictAddRaw by a caller that stores val in the entry it gets, if any
DictAddRaw(key, val, a) ==
    \E r \in {dictAddRaw(dict, key, dict_can_resize, a)} :
    /\ Alive
    /\ dict' = IF r.entry = NULL THEN r.d ELSE dictSetVal(r.d, r.entry, val)
    /\ last' = [op |-> "dictAddRaw", ret |-> IF r.entry = NULL THEN 0 ELSE 1]
    /\ netAdds' = IF key \in StoredKeys(dict) THEN netAdds ELSE netAdds + 1
    /\ ref' = IF ref[key] = 0 THEN [ref EXCEPT ![key] = val] ELSE ref
    /\ iter' = IterSees(iter, dict, r.d, {})
    /\ UNCHANGED <<dict_can_resize, scan>>

\* dictReplaceRaw by a caller that stores val in the entry it gets
DictReplaceRaw(key, val, a) ==
    \E r \in {dictReplaceRawRes(dict, key, dict_can_resize, a)} :
    /\ Alive
    /\ dict' = IF r.entry = NULL THEN r.d ELSE dictSetVal(r.d, r.entry, val)
    /\ last' = [op |-> "dictReplaceRaw", ret |-> IF r.entry = NULL THEN 0 ELSE 1]
    /\ netAdds' = IF key \in StoredKeys(dict) THEN netAdds ELSE netAdds + 1
    /\ ref' = [ref EXCEPT ![key] = val]
    /\ iter' = IterSees(iter, dict, r.d, {})
    /\ UNCHANGED <<dict_can_resize, scan>>

DictFind(key) ==
    \E r \in {dictFindRes(dict, key)} :
    /\ Alive
    /\ dict' = r.d
    /\ last' = [op |-> "dictFind", ret |-> IF r.entry = NULL THEN 0 ELSE 1]
    /\ iter' = IterSees(iter, dict, r.d, {})
    /\ UNCHANGED <<dict_can_resize, netAdds, ref, scan>>

DictFetchValue(key) ==
    \E r \in {dictFetchValueRes(dict, key)} :
    /\ Alive
    /\ dict' = r.d
    /\ last' = [op |-> "dictFetchValue", ret |-> r.val]
    /\ iter' = IterSees(iter, dict, r.d, {})
    /\ UNCHANGED <<dict_can_resize, netAdds, ref, scan>>

DictExpand(size, a) ==
    /\ Alive
    /\ dict' = dictExpand(dict, size, a)
    /\ last' = [op |-> "dictExpand", ret |-> dictExpandRet(dict, size)]
    /\ iter' = IterSees(iter, dict, dict', {})
    /\ UNCHANGED <<dict_can_resize, netAdds, ref, scan>>

DictResize(a) ==
    /\ Alive
    /\ dict' = dictResize(dict, dict_can_resize, a)
    /\ last' = [op |-> "dictResize", ret |-> dictResizeRet(dict, dict_can_resize)]
    /\ iter' = IterSees(iter, dict, dict', {})
    /\ UNCHANGED <<dict_can_resize, netAdds, ref, scan>>

DictRehash(n) ==
    \E r \in {dictRehashRes(dict, n)} :
    /\ Alive
    /\ dict' = r.d
    /\ last' = [op |-> "dictRehash", ret |-> r.ret]
    /\ iter' = IterSees(iter, dict, r.d, {})
    /\ UNCHANGED <<dict_can_resize, netAdds, ref, scan>>

DictEnableResize ==
    /\ Alive
    /\ dict_can_resize' = TRUE
    /\ last' = [op |-> "dictEnableResize", ret |-> 0]
    /\ UNCHANGED <<dict, netAdds, ref, scan, iter>>

DictDisableResize ==
    /\ Alive
    /\ dict_can_resize' = FALSE
    /\ last' = [op |-> "dictDisableResize", ret |-> 0]
    /\ UNCHANGED <<dict, netAdds, ref, scan, iter>>

DictEmpty ==
    /\ Alive
    /\ dict' = dictEmpty(dict)
    /\ last' = [op |-> "dictEmpty", ret |-> 0, freed |-> dictEmptyFreed(dict)]
    /\ netAdds' = 0
    /\ ref' = NoKeys
    /\ scan' = [scan EXCEPT !.watch = 0]
    /\ iter' = IterSees(iter, dict, dict', StoredKeys(dict))
    /\ UNCHANGED dict_can_resize

\* The calls of a caller that draws keys from K, values from V, dictExpand
\* sizes from S and dictRehash counts from N.
DictOps(K, V, S, N) ==
    \/ \E key \in K, val \in V, a \in LowestFree(dict) : DictAdd(key, val, a)
    \/ \E key \in K, val \in V, a \in LowestFree(dict) : DictReplace(key, val, a)
    \/ \E key \in K : DictDelete(key)
    \/ \E key \in K : DictFind(key)
    \/ \E size \in S, a \in LowestFree(dict) : DictExpand(size, a)
    \/ \E a \in LowestFree(dict) : DictResize(a)
    \/ \E n \in N : DictRehash(n)
    \/ DictEnableResize
    \/ DictDisableResize
    \/ DictEmpty

Next == DictOps(Keys, {DefaultVal}, ExpandSizes, 1 .. MaxRehashN)

Spec == Init /\ [][Next]_vars

\* One dictScan call of a caller that follows the cursor protocol. The first
\* call of a scan picks the key to watch among the stored ones.
DictScan ==
    \E r \in {dictScanRes(dict, scan.v)} :
    \E w \in (IF scan.active THEN {scan.watch}
              ELSE IF StoredKeys(dict) = {} THEN {0} ELSE StoredKeys(dict)) :
    /\ Alive
    /\ last' = [op |-> "dictScan", ret |-> r.v]
    /\ scan' = [v |-> r.v,
                active |-> r.v # 0,
                watch |-> IF w \in SeqRange(r.keys) \/ r.v = 0 THEN 0 ELSE w,
                missed |-> IF r.v = 0 /\ w \notin SeqRange(r.keys) THEN w ELSE 0]
    /\ dict' = dictScanDict(dict, scan.v)
    /\ UNCHANGED <<dict_can_resize, netAdds, ref, iter>>

\* A caller that scans a dictionary of ScanKeys while it adds and deletes
\* keys, resizes the dictionary and runs rehash steps.
NextScan ==
    \/ \E key \in ScanKeys, a \in LowestFree(dict) : DictAdd(key, DefaultVal, a)
    \/ \E key \in ScanKeys : DictDelete(key)
    \/ \E size \in ExpandSizes, a \in LowestFree(dict) : DictExpand(size, a)
    \/ \E a \in LowestFree(dict) : DictResize(a)
    \/ \E n \in 1 .. MaxRehashN : DictRehash(n)
    \/ DictScan

SpecScan == Init /\ [][NextScan]_vars

\* dictGetIterator, or dictGetSafeIterator when safe, by a caller that holds
\* no iterator.
DictGetIterator(safe) ==
    /\ Alive
    /\ iter.state # "open"
    /\ iter' = dictGetIterator(safe)
    /\ last' = [op |-> IF safe THEN "dictGetSafeIterator" ELSE "dictGetIterator",
                ret |-> 0]
    /\ UNCHANGED <<dict, dict_can_resize, netAdds, ref, scan>>

\* dictNext by a caller that stops calling it once it has returned NULL.
DictNext ==
    /\ Alive
    /\ iter.state = "open"
    /\ ~iter.done
    /\ \E o \in dictNextLoop(dict, iter) :
          /\ dict' = o.d
          /\ iter' = [o.it EXCEPT
                         !.ints = IF ~IterStarted(iter) /\ ~iter.safe
                                  THEN TableShape(dict) ELSE @,
                         !.seen = IF iter.safe /\ iter.muts = 0 /\ o.ret \in AllKeys
                                  THEN @ \cup {o.ret} ELSE @,
                         !.n = IF iter.safe /\ iter.muts = 0 /\ o.ret \in AllKeys
                               THEN @ + 1 ELSE @,
                         !.done = (o.ret = NoEntry)]
          /\ last' = [op |-> "dictNext", ret |-> o.ret]
    /\ UNCHANGED <<dict_can_resize, netAdds, ref, scan>>

DictReleaseIterator ==
    /\ Alive
    /\ iter.state = "open"
    /\ dict' = dictReleaseIterator(dict, iter)
    /\ iter' = NoIterator
    /\ last' = [op |-> "dictReleaseIterator", ret |-> 0,
                advanced |-> IterStarted(iter)]
    /\ UNCHANGED <<dict_can_resize, netAdds, ref, scan>>

\* dictGetRandomKey: the set of [d, ret], one for each entry the two random()
\* draws can pick: any entry of any bucket that is not empty (of both tables
\* while a rehash is in flight).
dictGetRandomKeyRes(d) ==
    LET Pick(d1) ==
            IF d1.abort # "none" THEN {[d |-> d1, ret |-> NoEntry]}
            ELSE {[d |-> d1, ret |-> k] : k \in StoredKeys(d1)}
    IN IF dictSize(d) = 0 THEN {[d |-> d, ret |-> NoEntry]}
       ELSE Pick(RehashStepIfRehashing(d))

\* (mutant) line 1089, the clamp of count to dictSize(d), is missing
ClampCount_None(d, count) == count

\* Line 1089: if (dictSize(d) < count) count = dictSize(d);
ClampCount(d, count) == IF dictSize(d) < count THEN dictSize(d) ELSE count

\* The while(size--) loop of lines 1097-1109 over table ht from bucket i:
\* des, the keys of the entries stored so far; the function returns as soon
\* as des holds count entries.
RECURSIVE CollectBuckets(_, _, _, _, _)
CollectBuckets(ht, i, size, des, count) ==
    LET Chain(keys) ==
            IF Len(des) + Len(keys) >= count
            THEN des \o SubSeq(keys, 1, count - Len(des))
            ELSE CollectBuckets(ht, BitAnd(i + 1, ht.sizemask), size - 1,
                                des \o keys, count)
    IN IF size = 0 THEN des ELSE Chain(ChainKeys(ht.table[i]))

\* The while(stored < count) loop: the set of [des, abort], one for each
\* value the random() & sizemask of line 1093 can take in the passes over
\* the tables; passes is the number of passes of the loop that are followed.
RECURSIVE RandomKeysLoop(_, _, _, _)
RandomKeysLoop(d, des, count, passes) ==
    LET Second(des1) ==
            IF Len(des1) = count THEN {[des |-> des1, abort |-> "none"]}
            ELSE RandomKeysLoop(d, des1, count, passes - 1)
        First(des0) ==
            IF Len(des0) = count THEN {[des |-> des0, abort |-> "none"]}
            ELSE IF ~dictIsRehashing(d)
            THEN {[des |-> des0, abort |-> "assert_rehashing"]}
            ELSE UNION {Second(CollectBuckets(d.ht[1], i, d.ht[1].size, des0, count)) :
                          i \in 0 .. d.ht[1].sizemask}
    IN IF ~(Len(des) < count) THEN {[des |-> des, abort |-> "none"]}
       ELSE IF passes = 0 THEN {[des |-> des, abort |-> "no_return"]}
       ELSE UNION {First(CollectBuckets(d.ht[0], i, d.ht[0].size, des, count)) :
                     i \in 0 .. d.ht[0].sizemask}

\* dictGetRandomKeys: the set of [des, abort]; the value returned is Len(des).
dictGetRandomKeysRes(d, count) ==
    RandomKeysLoop(d, <<>>, ClampCount(d, count), MaxPasses)

DictGetRandomKeys(count) ==
    /\ Alive
    /\ \E r \in dictGetRandomKeysRes(dict, count) :
           /\ dict' = [dict EXCEPT !.abort = r.abort]
           /\ last' = [op |-> "dictGetRandomKeys", ret |-> Len(r.des),
                        count |-> count, des |-> r.des]
    /\ UNCHANGED <<dict_can_resize, netAdds, ref, scan, iter>>

\* The n of the dictRehash calls of dictRehashMilliseconds
RehashBatch == 100

\* The round of a call whose time budget is never exceeded
NoLimit == 0

\* (mutant) rehashes is advanced before the result of the batch is tested
RECURSIVE dictRehashMillisecondsLoop_CountsLast(_, _, _, _)
dictRehashMillisecondsLoop_CountsLast(d, rehashes, round, batches) ==
    LET Pass(r) ==
            IF r.ret = 0
            THEN [d |-> r.d, ret |-> rehashes + RehashBatch,
                  batches |-> Append(batches, r.ret), stopped |-> FALSE]
            ELSE IF round = 1
            THEN [d |-> r.d, ret |-> rehashes + RehashBatch,
                  batches |-> Append(batches, r.ret), stopped |-> TRUE]
            ELSE dictRehashMillisecondsLoop_CountsLast(r.d, rehashes + RehashBatch,
                                                       round - 1, Append(batches, r.ret))
    IN Pass(dictRehashRes(d, RehashBatch))

\* dictRehashMilliseconds: [d, ret, batches, stopped], batches being what the
\* dictRehash calls returned, in order, and stopped whether the break of line
\* 437 ended the loop. The clock passes ms at the test of line 437 in the
\* round-th pass of the loop at the latest, and never when round is NoLimit.
RECURSIVE dictRehashMillisecondsLoop(_, _, _, _)
dictRehashMillisecondsLoop(d, rehashes, round, batches) ==
    LET Pass(r) ==
            IF r.ret = 0
            THEN [d |-> r.d, ret |-> rehashes, batches |-> Append(batches, r.ret),
                  stopped |-> FALSE]
            ELSE IF round = 1
            THEN [d |-> r.d, ret |-> rehashes + RehashBatch,
                  batches |-> Append(batches, r.ret), stopped |-> TRUE]
            ELSE dictRehashMillisecondsLoop(r.d, rehashes + RehashBatch,
                                            round - 1, Append(batches, r.ret))
    IN Pass(dictRehashRes(d, RehashBatch))

dictRehashMillisecondsRes(d, round) == dictRehashMillisecondsLoop(d, 0, round, <<>>)

DictGetRandomKey ==
    /\ Alive
    /\ \E r \in dictGetRandomKeyRes(dict) :
           /\ dict' = r.d
           /\ last' = [op |-> "dictGetRandomKey", ret |-> r.ret]
           /\ iter' = IterSees(iter, dict, r.d, {})
    /\ UNCHANGED <<dict_can_resize, netAdds, ref, scan>>

DictRehashMilliseconds(round) ==
    \E r \in {dictRehashMillisecondsRes(dict, round)} :
    /\ Alive
    /\ dict' = r.d
    /\ last' = [op |-> "dictRehashMilliseconds", ret |-> r.ret,
                batches |-> r.batches, stopped |-> r.stopped]
    /\ iter' = IterSees(iter, dict, r.d, {})
    /\ UNCHANGED <<dict_can_resize, netAdds, ref, scan>>

\* The sizes the callers that iterate or store values ask dictExpand for
IterExpandSizes == {s \in ExpandSizes : s <= 2 * DICT_HT_INITIAL_SIZE}

\* The caller has changed the tables fewer than MaxMutations times during
\* the iteration it is in.
MayMutate == (iter.state = "open" /\ IterStarted(iter)) => iter.muts < MaxMutations

\* A caller that iterates with a safe iterator over a dictionary of IterKeys
\* while it changes it.
NextSafe ==
    \/ MayMutate /\ \E key \in IterKeys, a \in LowestFree(dict) : DictAdd(key, DefaultVal, a)
    \/ MayMutate /\ \E key \in IterKeys, a \in LowestFree(dict) : DictReplace(key, DefaultVal, a)
    \/ MayMutate /\ \E key \in IterKeys : DictDelete(key)
    \/ MayMutate /\ \E key \in IterKeys : DictFind(key)
    \/ MayMutate /\ \E size \in IterExpandSizes, a \in LowestFree(dict) : DictExpand(size, a)
    \/ MayMutate /\ \E n \in 1 .. MaxRehashN : DictRehash(n)
    \/ DictGetIterator(TRUE)
    \/ DictNext
    \/ DictReleaseIterator

SpecSafe == Init /\ [][NextSafe]_vars

\* A caller that iterates with an unsafe iterator and, against the rule of
\* dict.h, changes the dictionary before it releases the iterator; it does
\* not call dictNext again once it has changed the tables.
NextUnsafe ==
    \/ MayMutate /\ \E key \in IterKeys, a \in LowestFree(dict) : DictAdd(key, DefaultVal, a)
    \/ MayMutate /\ \E key \in IterKeys : DictDelete(key)
    \/ MayMutate /\ \E size \in IterExpandSizes, a \in LowestFree(dict) : DictExpand(size, a)
    \/ MayMutate /\ \E n \in 1 .. MaxRehashN : DictRehash(n)
    \/ DictGetIterator(FALSE)
    \/ iter.muts = 0 /\ DictNext
    \/ DictReleaseIterator

SpecUnsafe == Init /\ [][NextUnsafe]_vars

\* A caller that fills the dictionary, then iterates with a safe iterator
\* and deletes some of the entries as the iterator returns them.
NextDelete ==
    \/ iter.state # "open"
           /\ \E key \in DelKeys, a \in LowestFree(dict) : DictAdd(key, DefaultVal, a)
    \/ iter.state # "open"
           /\ \E size \in IterExpandSizes, a \in LowestFree(dict) : DictExpand(size, a)
    \/ iter.state # "open" /\ DictRehash(1)
    \/ DictGetIterator(TRUE)
    \/ DictNext
    \/ DictDeleteReturned
    \/ DictReleaseIterator

SpecDelete == Init /\ [][NextDelete]_vars

\* A caller that fills the dictionary, then iterates with an unsafe iterator
\* and calls nothing but dictNext until it has released it.
NextNextOnly ==
    \/ iter.state # "open"
           /\ \E key \in IterKeys, a \in LowestFree(dict) : DictAdd(key, DefaultVal, a)
    \/ iter.state # "open" /\ \E key \in IterKeys : DictDelete(key)
    \/ iter.state # "open"
           /\ \E size \in IterExpandSizes, a \in LowestFree(dict) : DictExpand(size, a)
    \/ iter.state # "open" /\ \E n \in 1 .. MaxRehashN : DictRehash(n)
    \/ DictGetIterator(FALSE)
    \/ DictNext
    \/ DictReleaseIterator

SpecNextOnly == Init /\ [][NextNextOnly]_vars

\* A caller that iterates with a safe iterator and empties the dictionary
\* whenever it likes.
NextEmpty ==
    \/ MayMutate /\ \E key \in IterKeys, a \in LowestFree(dict) : DictAdd(key, DefaultVal, a)
    \/ MayMutate /\ \E key \in IterKeys : DictDelete(key)
    \/ MayMutate /\ \E size \in IterExpandSizes, a \in LowestFree(dict) : DictExpand(size, a)
    \/ MayMutate /\ DictRehash(1)
    \/ MayMutate /\ DictEmpty
    \/ DictGetIterator(TRUE)
    \/ DictNext
    \/ DictReleaseIterator

SpecEmpty == Init /\ [][NextEmpty]_vars

\* The caller of NextSafe that also asks for random keys and rehashes for a
\* time.
NextStep ==
    \/ NextSafe
    \/ MayMutate /\ DictGetRandomKey
    \/ MayMutate /\ \E round \in 1 .. MaxRehashN : DictRehashMilliseconds(round)

SpecStep == Init /\ [][NextStep]_vars

\* The caller that samples the dictionary with dictGetRandomKeys.
NextRandom ==
    \/ \E key \in RandomKeys, a \in LowestFree(dict) : DictAdd(key, DefaultVal, a)
    \/ \E key \in RandomKeys : DictDelete(key)
    \/ \E size \in IterExpandSizes, a \in LowestFree(dict) : DictExpand(size, a)
    \/ DictRehash(1)
    \/ \E count \in 0 .. NumRandomKeys + 1 : DictGetRandomKeys(count)

SpecRandom == Init /\ [][NextRandom]_vars

\* The caller that stores different values under its keys.
NextVal ==
    \/ \E key \in ValKeys, val \in Vals, a \in LowestFree(dict) : DictAdd(key, val, a)
    \/ \E key \in ValKeys, val \in Vals, a \in LowestFree(dict) : DictReplace(key, val, a)
    \/ \E key \in ValKeys : DictDelete(key)
    \/ \E size \in IterExpandSizes, a \in LowestFree(dict) : DictExpand(size, a)
    \/ DictRehash(1)

SpecVal == Init /\ [][NextVal]_vars

\* A caller that also adds and replaces through dictAddRaw and
\* dictReplaceRaw.
NextRaw ==
    \/ \E key \in RawKeys, val \in {DefaultVal}, a \in LowestFree(dict) : DictAdd(key, val, a)
    \/ \E key \in RawKeys, val \in {DefaultVal}, a \in LowestFree(dict) : DictAddRaw(key, val, a)
    \/ \E key \in RawKeys, val \in {DefaultVal}, a \in LowestFree(dict) : DictReplace(key, val, a)
    \/ \E key \in RawKeys, val \in {DefaultVal}, a \in LowestFree(dict) : DictReplaceRaw(key, val, a)
    \/ \E key \in RawKeys : DictDelete(key)
    \/ \E size \in IterExpandSizes, a \in LowestFree(dict) : DictExpand(size, a)
    \/ \E a \in LowestFree(dict) : DictResize(a)
    \/ DictRehash(1)

SpecRaw == Init /\ [][NextRaw]_vars

\* The sizes the caller of the map asks dictExpand for: one too small for two
\* entries, the initial size and twice that
MapExpandSizes == {1, DICT_HT_INITIAL_SIZE, 2 * DICT_HT_INITIAL_SIZE}

\* The caller that uses the dictionary as a map from ValKeys to Vals, with a
\* safe iterator open at times, and resizes and rehashes in between.
NextMap ==
    \/ MayMutate /\ \E key \in ValKeys, val \in Vals, a \in LowestFree(dict) : DictAdd(key, val, a)
    \/ MayMutate /\ \E key \in ValKeys, val \in Vals, a \in LowestFree(dict) : DictReplace(key, val, a)
    \/ MayMutate /\ \E key \in ValKeys : DictDelete(key)
    \/ MayMutate /\ \E key \in ValKeys : DictFind(key)
    \/ MayMutate /\ \E key \in ValKeys : DictFetchValue(key)
    \/ MayMutate /\ \E size \in MapExpandSizes, a \in LowestFree(dict) : DictExpand(size, a)
    \/ MayMutate /\ \E a \in LowestFree(dict) : DictResize(a)
    \/ MayMutate /\ DictRehash(1)
    \/ DictEnableResize
    \/ DictDisableResize
    \/ DictGetIterator(TRUE)
    \/ DictNext
    \/ DictReleaseIterator

SpecMap == Init /\ [][NextMap]_vars

\* dictAdd by a caller that loads the keys of BulkKeys in increasing order
\* and keeps no map of its own.
DictAddBulk(key, a) ==
    \E r \in {dictAddRes(dict, key, DefaultVal, dict_can_resize, a)} :
    /\ Alive
    /\ key = netAdds + 1
    /\ dict' = r.d
    /\ last' = [op |-> "dictAdd", ret |-> r.ret]
    /\ netAdds' = netAdds + 1
    /\ iter' = IterSees(iter, dict, r.d, {})
    /\ UNCHANGED <<dict_can_resize, ref, scan>>

\* The caller that loads the dictionary and rehashes for a time in between.
NextBulk ==
    \/ \E key \in BulkKeys, a \in LowestFree(dict) : DictAddBulk(key, a)
    \/ \E round \in (1 .. MaxRehashN) \cup {NoLimit} : DictRehashMilliseconds(round)

SpecBulk == Init /\ [][NextBulk]_vars

\* The caller that adds and deletes keys, switches resizing off and on and
\* calls dictResize.
NextResize ==
    \/ \E key \in ResizeKeys, a \in LowestFree(dict) : DictAdd(key, DefaultVal, a)
    \/ \E key \in ResizeKeys : DictDelete(key)
    \/ \E a \in LowestFree(dict) : DictResize(a)
    \/ DictRehash(1)
    \/ DictEnableResize
    \/ DictDisableResize

SpecResize == Init /\ [][NextResize]_vars

\* A caller that loads the dictionary one new key after the other, takes the
\* newest key out again, and switches resizing on and off in between.
NextForce ==
    \/ /\ dictSize(dict) < NumForceKeys
       /\ \E a \in LowestFree(dict) : DictAdd(dictSize(dict) + 1, DefaultVal, a)
    \/ /\ dictSize(dict) > 0
       /\ DictDelete(dictSize(dict))
    \/ DictRehash(1)
    \/ DictEnableResize
    \/ DictDisableResize

SpecForce == Init /\ [][NextForce]_vars

\* ------------------------------------------------------------ claims
BothTablesHold == dictIsRehashing(dict) /\ dict.ht[0].used > 0 /\ dict.ht[1].used > 0

\* C1: after any sequence of dictAdd and dictDelete calls (with the growth
\* and the rehash steps they trigger) dictSize is the number of dictAdd calls
\* on an absent key minus the number of dictDelete calls that succeeded.
C1_SizeIsAddsMinusDeletes == dictSize(dict) = netAdds

C1_Witness ==
    /\ last = [op |-> "dictDelete", ret |-> DICT_OK]
    /\ BothTablesHold
    /\ netAdds >= 2

\* C2: while a rehash is in flight dictFind(k) returns the entry of k for
\* every key added and not deleted, in whichever table it lies, and NULL
\* for every other key.
C2_FindDuringRehash ==
    dictIsRehashing(dict) =>
        \A k \in Keys :
            \E f \in {dictFindRes(dict, k)} :
                IF ref[k] # 0
                THEN f.entry # NULL /\ EntryAt(f.d, f.entry).key = k
                ELSE f.entry = NULL

C2_Witness ==
    /\ last = [op |-> "dictFind", ret |-> 1]
    /\ BothTablesHold
    /\ \E k1, k2 \in Keys :
          /\ dictFindRes(dict, k1).entry.t = 0 /\ dictFindRes(dict, k1).entry.pos > 0
          /\ dictFindRes(dict, k2).entry.t = 1 /\ dictFindRes(dict, k2).entry.pos > 0
    /\ \E k \in Keys : ref[k] = 0

\* C9: in every reachable state every entry chained at ht[t].table[i] has
\* hash(key) & ht[t].sizemask = i.
C9_EntriesInTheirBucket ==
    \A t \in {0, 1} :
        \A i \in 0 .. dict.ht[t].size - 1 :
            \A p \in 1 .. Len(dict.ht[t].table[i]) :
                BitAnd(dictHashKey(dict.ht[t].table[i][p].key), dict.ht[t].sizemask) = i

C9_Witness ==
    /\ BothTablesHold
    /\ dict.ht[0].size < dict.ht[1].size
    /\ \E i \in 0 .. dict.ht[0].size - 1 : Len(dict.ht[0].table[i]) >= 2
    /\ \E i \in 4 .. dict.ht[1].size - 1 : Len(dict.ht[1].table[i]) >= 1

\* C10: rehashidx # -1 exactly when ht[1] is allocated; when rehashidx = -1,
\* ht[1] is reset (no bucket array, size 0, sizemask 0, used 0) and every
\* entry is in ht[0].
C10_SecondTableIffRehashing ==
    /\ dictIsRehashing(dict) <=> dict.ht[1].size > 0
    /\ ~dictIsRehashing(dict) =>
          /\ dict.ht[1] = _dictReset
          /\ \A k \in Keys : ref[k] # 0 => k \in KeysOf(TableEntries(dict.ht[0]))

C10_Witness ==
    /\ last = [op |-> "dictRehash", ret |-> 0]
    /\ ~dictIsRehashing(dict)
    /\ dict.ht[0].size = 2 * DICT_HT_INITIAL_SIZE
    /\ dict.ht[0].used >= 3

\* What is left to do of a migration: 0 when none is in flight, else the
\* entries still in ht[0] plus the completion step.
RehashLeft(d) == IF dictIsRehashing(d) THEN d.ht[0].used + 1 ELSE 0

\* C5: once a rehash is in flight, every dictRehash(d, n) call with n >= 1
\* strictly decreases what is left of the migration (so finitely many calls
\* reach rehashidx = -1), does not abort, and leaves dictSize and the set of
\* stored keys as they were.
C5_RehashTerminates ==
    [][(last'.op = "dictRehash" /\ dictIsRehashing(dict)) =>
          /\ RehashLeft(dict') < RehashLeft(dict)
          /\ dict'.abort = "none"
          /\ dictSize(dict') = dictSize(dict)
          /\ StoredKeys(dict') = StoredKeys(dict)
          /\ \A k \in Keys : ref[k] # 0 <=> k \in StoredKeys(dict')]_vars

C5_Witness ==
    /\ last = [op |-> "dictRehash", ret |-> 1]
    /\ BothTablesHold
    /\ dict.ht[1].used >= 2
    /\ dict.rehashidx >= 2

\* C3: when a full scan ends (a dictScan call returns 0), no key that was
\* stored from the first call of the scan to the last was left out of every
\* callback, whatever dictAdd, dictDelete, dictExpand, dictResize and
\* dictRehash calls were made between the calls of the scan.
C3_ScanDeliversPresentKeys == scan.missed = 0

\* The rank of a cursor below 2^16 in the order the scan follows: its 16 low
\* bits reversed (rev() of such a cursor is this rank times 2^48).
RECURSIVE ReverseBits(_, _)
ReverseBits(v, n) ==
    IF n = 0 THEN 0 ELSE ((v % 2) * Pow2(n - 1)) + ReverseBits(v \div 2, n - 1)

CursorRank(v) == ReverseBits(v, LimbBits)

\* C4: every dictScan call of a scan either returns 0 or returns a cursor of
\* strictly higher rank than the one it was given, whatever calls were made
\* since the previous dictScan call, so with tables of bounded size a scan
\* returns to 0 after finitely many calls; and dictScan on a dictionary
\* with no entry returns 0 without calling fn.
C4_ScanTerminates ==
    [][last'.op = "dictScan" =>
          \E r \in {dictScanRes(dict, scan.v)} :
              /\ scan'.v = r.v
              /\ r.v >= 0
              /\ r.v = 0 \/ CursorRank(r.v) > CursorRank(scan.v)
              /\ dictSize(dict) = 0 => r.v = 0 /\ r.keys = <<>>]_vars

C4_Witness ==
    /\ last = [op |-> "dictScan", ret |-> 0]
    /\ BothTablesHold
    /\ dict.ht[0].size > 2 * dict.ht[1].size

\* C6: when dictNext returns NULL to a safe iterator and the tables have not
\* changed since its first dictNext, the calls have returned every stored
\* entry exactly once: as many entries as dictSize, their keys the stored
\* keys, whether a rehash is in flight or not.
C6_SafeIterationExactlyOnce ==
    (last.op = "dictNext" /\ iter.safe /\ iter.done /\ iter.muts = 0) =>
        /\ iter.seen = StoredKeys(dict)
        /\ iter.n = dictSize(dict)

C6_Witness ==
    /\ last = [op |-> "dictNext", ret |-> NoEntry]
    /\ iter.safe /\ iter.done /\ iter.muts = 0
    /\ BothTablesHold
    /\ iter.n = 2

\* C7: every dictNext of a safe iterator returns NULL or an entry that is
\* still stored, never a freed one, and does not crash, whatever dictAdd,
\* dictReplace and dictDelete calls were made between the dictNext calls.
C7_SafeIteratorReturnsStored ==
    (last.op = "dictNext" /\ iter.safe) =>
        /\ dict.abort = "none"
        /\ last.ret = NoEntry \/ last.ret \in StoredKeys(dict)

\* The step of dictReleaseIterator on an unsafe iterator that was advanced
ReleaseOfAdvancedUnsafe ==
    /\ iter.state = "open" /\ iter'.state = "none"
    /\ ~iter.safe /\ IterStarted(iter)

\* C8 (as stated): whenever the tables were changed between the first
\* dictNext of an unsafe iterator and its release, the assertion of
\* dictReleaseIterator fails.
C8_EveryMutationDetected ==
    [][(ReleaseOfAdvancedUnsafe /\ iter.muts > 0) =>
          dict'.abort = "assert_fingerprint"]_vars

\* C8 (amended): whenever the address, size or used count of ht[0] or ht[1]
\* at the release of an unsafe iterator differs from its value at the first
\* dictNext, the assertion of dictReleaseIterator fails.
C8_ChangedTablesDetected ==
    [][(ReleaseOfAdvancedUnsafe /\ iter.ints # TableShape(dict)) =>
          dict'.abort = "assert_fingerprint"]_vars

C8_Witness ==
    /\ last.op = "dictReleaseIterator"
    /\ dict.abort = "assert_fingerprint"
    /\ dictIsRehashing(dict)

\* C11: a dictAdd call with a key that is stored, in either table while a
\* rehash is in flight, returns DICT_ERR and leaves dictSize, the set of
\* stored keys and the value stored under every key as they were.
C11_AddPresentKeyFails ==
    [][last'.op = "dictAdd" =>
           \A key \in ValKeys \cap StoredKeys(dict) :
               \A val \in Vals, a \in LowestFree(dict) :
                   DictAdd(key, val, a) =>
                       /\ last'.ret = DICT_ERR
                       /\ dictSize(dict') = dictSize(dict)
                       /\ StoredKeys(dict') = StoredKeys(dict)
                       /\ StoredVals(dict') = StoredVals(dict)]_vars

C11_Witness ==
    /\ last = [op |-> "dictAdd", ret |-> DICT_ERR]
    /\ BothTablesHold
    /\ \E k \in ValKeys : StoredVals(dict)[k] = {NumVals}

\* C12: a dictDelete call with a key that is not stored returns DICT_ERR and
\* leaves dictSize, the stored keys and every stored value as they were, also
\* when ht[0] was never allocated; with a stored key it returns DICT_OK,
\* removes that key and no other, leaves the other values as they were and
\* decrements by one the used count of the table that holds the entry once
\* the rehash step of the call has run, the other table keeping its count.
C12_DeleteAbsentFailsPresentRemoves ==
    [][\A key \in ValKeys :
           (last'.op = "dictDelete" /\ DictDelete(key)) =>
               IF key \notin StoredKeys(dict)
               THEN /\ last'.ret = DICT_ERR
                    /\ dictSize(dict') = dictSize(dict)
                    /\ StoredKeys(dict') = StoredKeys(dict)
                    /\ StoredVals(dict') = StoredVals(dict)
               ELSE /\ last'.ret = DICT_OK
                    /\ dictSize(dict') = dictSize(dict) - 1
                    /\ StoredKeys(dict') = StoredKeys(dict) \ {key}
                    /\ StoredVals(dict') = [StoredVals(dict) EXCEPT ![key] = {}]
                    /\ \E d1 \in {RehashStepIfRehashing(dict)} :
                       \E t \in {HolderOf(d1, key)} :
                           /\ dict'.ht[t].used = d1.ht[t].used - 1
                           /\ dict'.ht[1 - t].used = d1.ht[1 - t].used]_vars

C12_Witness ==
    /\ last = [op |-> "dictDelete", ret |-> DICT_OK]
    /\ dictIsRehashing(dict)
    /\ dict.rehashidx > 0
    /\ dict.ht[1].used = 1
    /\ StoredVals(dict)[NumValKeys] = {NumVals}

\* C12 as stated: the used count of the table that held the key when
\* dictDelete was called is one less when the call returns.
C12_HolderBeforeCallDecremented ==
    [][\A key \in ValKeys :
           (last'.op = "dictDelete" /\ key \in StoredKeys(dict)
                                     /\ DictDelete(key)) =>
               \E t \in {HolderOf(dict, key)} :
                   dict'.ht[t].used = dict.ht[t].used - 1]_vars

\* C13: a dictExpand(d, size) call made while a rehash is in flight or with
\* size < ht[0].used returns DICT_ERR and leaves the dictionary (both tables,
\* their used counts and rehashidx) as it was, so the migration in flight
\* stays the only one.
C13_ExpandRejected ==
    [][\A size \in ExpandSizes, a \in LowestFree(dict) :
           (last'.op = "dictExpand"
                /\ (dictIsRehashing(dict) \/ size < dict.ht[0].used)
                /\ DictExpand(size, a)) =>
               /\ last'.ret = DICT_ERR
               /\ dict' = dict]_vars

C13_Witness ==
    /\ last = [op |-> "dictExpand", ret |-> DICT_ERR]
    /\ BothTablesHold
    /\ dict.rehashidx > 0

IsPowerOfTwo(n) == \E e \in 0 .. LimbBits : n = Pow2(e)

\* n is the smallest power of two >= m
SmallestPowerOfTwoAtLeast(n, m) ==
    /\ IsPowerOfTwo(n)
    /\ n >= m
    /\ \A p \in 1 .. n - 1 : IsPowerOfTwo(p) => p < m

Max(a, b) == IF a >= b THEN a ELSE b

\* C14: dictResize returns DICT_ERR and leaves the dictionary as it was if
\* and only if resizing is disabled or a rehash is in flight; otherwise it
\* returns DICT_OK and the table it allocates has the smallest power of two
\* >= max(ht[0].used, 4) as its size, which is at most the size of ht[0]
\* when ht[0] is allocated and holds no more entries than it has buckets.
C14_ResizeToMinimalSize ==
    [][\A a \in LowestFree(dict) :
           (last'.op = "dictResize" /\ DictResize(a)) =>
               IF ~dict_can_resize \/ dictIsRehashing(dict)
               THEN last'.ret = DICT_ERR /\ dict' = dict
               ELSE /\ last'.ret = DICT_OK
                    /\ dict' # dict
                    /\ \E t \in {IF dict.ht[0].addr = 0 THEN 0 ELSE 1} :
                       /\ dict'.ht[t].addr = a
                       /\ SmallestPowerOfTwoAtLeast(
                              dict'.ht[t].size,
                              Max(dict.ht[0].used, DICT_HT_INITIAL_SIZE))
                       /\ (t = 1 /\ dict.ht[0].used <= dict.ht[0].size) =>
                              dict'.ht[1].size <= dict.ht[0].size]_vars

C14_Witness ==
    /\ last = [op |-> "dictResize", ret |-> DICT_OK]
    /\ dictIsRehashing(dict)
    /\ dict.ht[0].used = 1
    /\ dict.ht[1].size < dict.ht[0].size

\* C14 as stated: the table a successful dictResize allocates is not larger
\* than the table it replaces.
C14_ResizeShrinks ==
    [][(last'.op = "dictResize" /\ last'.ret = DICT_OK /\ dict.ht[0].addr # 0) =>
           dict'.ht[1].size <= dict.ht[0].size]_vars

\* C15: dictReplace on a stored key returns 0, leaves dictSize as it was,
\* makes dictFind of the key return the new value and calls the value
\* destructor once, with the value stored before; on a key that is not
\* stored it returns 1, increases dictSize by one and calls no destructor.
C15_ReplaceSetsValueFreesOld ==
    [][\A key \in ValKeys, val \in Vals, a \in LowestFree(dict) :
           (last'.op = "dictReplace" /\ DictReplace(key, val, a)) =>
               IF key \in StoredKeys(dict)
               THEN /\ last'.ret = 0
                    /\ dictSize(dict') = dictSize(dict)
                    /\ \E f \in {dictFindRes(dict', key)} :
                           /\ f.entry # NULL
                           /\ EntryAt(f.d, f.entry).val = val
                    /\ Len(last'.freed) = 1
                    /\ StoredVals(dict)[key] = {last'.freed[1]}
               ELSE /\ last'.ret = 1
                    /\ dictSize(dict') = dictSize(dict) + 1
                    /\ last'.freed = <<>>]_vars

C15_Witness ==
    /\ last = [op |-> "dictReplace", ret |-> 0, freed |-> <<1>>]
    /\ dictIsRehashing(dict)
    /\ dict.ht[1].used >= 2
    /\ \E k \in ValKeys : StoredVals(dict)[k] = {2}

WithoutKey(chain, key) == SelectSeq(chain, LAMBDA e : e.key # key)

\* The chains of both tables without the entry of key
BucketsWithout(d, key) ==
    [t \in {0, 1} |->
        [i \in DOMAIN d.ht[t].table |-> WithoutKey(d.ht[t].table[i], key)]]

\* d after one dictRehash(d, 1), with a safe iterator open so that the call
\* that follows takes no step of its own
SteppedOnce(d) == [dictRehash(d, 1) EXCEPT !.iterators = 1]

\* The call moved no entry: rehashidx and the chains are as they were, but
\* for the entry of key
NoEntryMoved(key) ==
    /\ dict'.rehashidx = dict.rehashidx
    /\ BucketsWithout(dict', key) = BucketsWithout(dict, key)

\* During a rehash dictFind, dictGetRandomKey, dictAdd and dictDelete do
\* what one dictRehash(d, 1) followed by the call without a step does when
\* iterators = 0, and move no entry when iterators > 0; emptySkips tells
\* whether dictGetRandomKey on a dictionary without entries takes no step.
StepsOncePerCall(emptySkips) ==
    /\ last'.op = "dictFind" =>
           dict' = IF dict.iterators = 0 THEN dictRehash(dict, 1) ELSE dict
    /\ last'.op = "dictGetRandomKey" =>
           dict' = IF dict.iterators = 0 /\ ~(emptySkips /\ dictSize(dict) = 0)
                   THEN dictRehash(dict, 1) ELSE dict
    /\ \A key \in IterKeys, a \in LowestFree(dict) :
           (last'.op = "dictAdd" /\ DictAdd(key, DefaultVal, a)) =>
               IF dict.iterators = 0
               THEN [dict' EXCEPT !.iterators = 1] =
                        dictAddRes(SteppedOnce(dict), key, DefaultVal,
                                   dict_can_resize, a).d
               ELSE NoEntryMoved(key)
    /\ \A key \in IterKeys :
           (last'.op = "dictDelete" /\ DictDelete(key)) =>
               IF dict.iterators = 0
               THEN [dict' EXCEPT !.iterators = 1] =
                        dictDeleteRes(SteppedOnce(dict), key).d
               ELSE NoEntryMoved(key)

\* C16: while a rehash is in flight each dictAdd, dictFind, dictDelete and
\* dictGetRandomKey call takes exactly one rehash step (one dictRehash(d, 1))
\* if iterators = 0, but for dictGetRandomKey on a dictionary without
\* entries, which takes none; it takes no step if iterators > 0.
C16_OneStepUnlessEmpty == [][dictIsRehashing(dict) => StepsOncePerCall(TRUE)]_vars

C16_Witness ==
    /\ last.op = "dictGetRandomKey"
    /\ last.ret # NoEntry
    /\ BothTablesHold
    /\ dict.iterators = 0

\* C16 as stated: every one of the four calls takes the step.
C16_OneStepPerCall == [][dictIsRehashing(dict) => StepsOncePerCall(FALSE)]_vars

\* The table and the bucket of the entry of a stored key
PlaceOf(d, key) ==
    <<HolderOf(d, key), BitAnd(dictHashKey(key), d.ht[HolderOf(d, key)].sizemask)>>

\* C17: while a safe iterator is open and advanced (iterators > 0) no call
\* moves a stored entry to another table or bucket.
C17_NoMoveWhileSafeIterating ==
    [][dict.iterators > 0 =>
           \A k \in StoredKeys(dict) \cap StoredKeys(dict') :
               PlaceOf(dict', k) = PlaceOf(dict, k)]_vars

\* The keys of bucket v & m0 of the smaller table t0 and of every bucket j
\* of the larger table t1 with j & m0 = v & m0
ExpansionKeysOf(t0, t1, v) ==
    KeysOf(t0.table[BitAnd(v, t0.sizemask)])
        \cup UNION {KeysOf(t1.table[j]) :
                       j \in {i \in 0 .. t1.size - 1 :
                                 BitAnd(i, t0.sizemask) = BitAnd(v, t0.sizemask)}}

ExpansionKeys(d, v) ==
    IF ~dictIsRehashing(d) THEN KeysOf(d.ht[0].table[BitAnd(v, d.ht[0].sizemask)])
    ELSE IF d.ht[0].size > d.ht[1].size THEN ExpansionKeysOf(d.ht[1], d.ht[0], v)
    ELSE ExpansionKeysOf(d.ht[0], d.ht[1], v)

\* C18: a dictScan call with a cursor v handed back by an earlier call (or
\* 0) passes to fn the entries of bucket v & m0 of the smaller table and of
\* every bucket j of the larger table with j & m0 = v & m0 while a rehash is
\* in flight, and the entries of bucket v & sizemask of ht[0] otherwise.
C18_ScanDeliversAllExpansions ==
    [][(last'.op = "dictScan" /\ dictSize(dict) > 0) =>
           \E r \in {dictScanRes(dict, scan.v)} :
               /\ last'.ret = r.v
               /\ SeqRange(r.keys) = ExpansionKeys(dict, scan.v)]_vars

\* C19: dictGetRandomKeys(d, des, count) returns min(count, dictSize(d)),
\* stores that many entries in des, all of them stored in the dictionary and
\* no two the same, whether a rehash is in flight or not, and its assertion
\* does not fail.
C19_RandomKeysDistinctStored ==
    last.op = "dictGetRandomKeys" =>
        /\ dict.abort = "none"
        /\ last.ret = IF last.count < dictSize(dict) THEN last.count
                      ELSE dictSize(dict)
        /\ Len(last.des) = last.ret
        /\ SeqRange(last.des) \subseteq StoredKeys(dict)
        /\ Cardinality(SeqRange(last.des)) = last.ret

C19_Witness ==
    /\ last.op = "dictGetRandomKeys"
    /\ last.ret = NumRandomKeys
    /\ BothTablesHold
    /\ last.count > NumRandomKeys
    /\ HolderOf(dict, last.des[NumRandomKeys]) = 1

\* C20: every table with a bucket array has a size that is a power of two
\* and at least 4, a sizemask of size - 1 and as many buckets as its size; a
\* table without a bucket array has size 0 and used 0.
C20_TableSizes ==
    \A t \in {0, 1} :
        IF dict.ht[t].addr # 0
        THEN /\ IsPowerOfTwo(dict.ht[t].size)
             /\ dict.ht[t].size >= DICT_HT_INITIAL_SIZE
             /\ dict.ht[t].sizemask = dict.ht[t].size - 1
             /\ DOMAIN dict.ht[t].table = 0 .. dict.ht[t].size - 1
        ELSE /\ dict.ht[t].size = 0
             /\ dict.ht[t].used = 0
             /\ dict.ht[t].table = <<>>

C20_Witness ==
    /\ dictIsRehashing(dict)
    /\ dict.ht[0].size = 4 * DICT_HT_INITIAL_SIZE
    /\ dict.ht[1].size = DICT_HT_INITIAL_SIZE
    /\ dict.ht[1].used > 0
    /\ dict.ht[0].used > 0

\* C21: after a dictRehash, dictAdd, dictFind or dictDelete call has returned
\* with no safe iterator open, the dictionary is not left rehashing with an
\* empty ht[0].
C21_NoEmptyFirstTableWhileRehashing ==
    (last.op \in {"dictRehash", "dictAdd", "dictFind", "dictDelete"}
         /\ dict.iterators = 0) =>
        ~(dict.rehashidx # -1 /\ dict.ht[0].used = 0)

\* C22: dictRehash returns 1 exactly when, at its return, keys are left in
\* ht[0] to move to ht[1].
C22_ReturnsOneIffKeysLeft ==
    last.op = "dictRehash" =>
        (last.ret = 1 <=> (dictIsRehashing(dict) /\ dict.ht[0].used > 0))

NonEmptyBuckets(ht) == {i \in 0 .. ht.size - 1 : ht.table[i] # <<>>}

\* The n lowest elements of a set of integers (all of them if it has fewer)
RECURSIVE Lowest(_, _)
Lowest(S, n) ==
    IF n = 0 \/ S = {} THEN {}
    ELSE LET m == CHOOSE x \in S : \A y \in S : x <= y
         IN {m} \cup Lowest(S \ {m}, n - 1)

ChainKeysOfBuckets(ht, B) == UNION {KeysOf(ht.table[i]) : i \in B}

\* C23: dictRehash(d, n) on a rehashing dictionary whose ht[0] has k
\* non-empty buckets moves the min(n, k) first of them, each with its whole
\* chain, to ht[1] and leaves them empty in ht[0], the other buckets of
\* ht[0] staying as they were; empty buckets on the way are free.  With
\* n > k the pass after the last move completes the rehash.
C23_RehashMovesMinBuckets ==
    [][(last'.op = "dictRehash" /\ dictIsRehashing(dict)) =>
           \A n \in 1 .. MaxRehashN :
               DictRehash(n) =>
                   \E B \in {NonEmptyBuckets(dict.ht[0])} :
                   \E M \in {Lowest(B, n)} :
                   \E moved \in {ChainKeysOfBuckets(dict.ht[0], M)} :
                       IF n <= Cardinality(B)
                       THEN /\ dict'.rehashidx > dict.rehashidx
                            /\ NonEmptyBuckets(dict'.ht[0]) = B \ M
                            /\ \A i \in B \ M :
                                   dict'.ht[0].table[i] = dict.ht[0].table[i]
                            /\ KeysOf(TableEntries(dict'.ht[1])) =
                                   KeysOf(TableEntries(dict.ht[1])) \cup moved
                            /\ dict'.ht[0].used = dict.ht[0].used - Cardinality(moved)
                            /\ dict'.ht[1].used = dict.ht[1].used + Cardinality(moved)
                       ELSE /\ ~dictIsRehashing(dict')
                            /\ dict'.ht[0].size = dict.ht[1].size
                            /\ KeysOf(TableEntries(dict'.ht[0])) = StoredKeys(dict)
                            /\ dict'.ht[0].used = dictSize(dict)]_vars

C23_Witness ==
    /\ last = [op |-> "dictRehash", ret |-> 1]
    /\ dict.rehashidx = 5
    /\ dict.ht[0].used = 1
    /\ dict.ht[1].used = 3

\* C24: with resizing enabled, a dictAdd of an absent key on a dictionary
\* that is not rehashing starts a migration into a new table whose size is
\* the smallest power of two >= 2 * ht[0].used when ht[0].used >= ht[0].size,
\* and starts none when ht[0].used < ht[0].size; on a dictionary whose ht[0]
\* was never allocated it allocates ht[0] with 4 buckets and starts none.
C24_AddGrowsAtLoadOne ==
    [][(last'.op = "dictAdd" /\ ~dictIsRehashing(dict) /\ dict_can_resize) =>
           \A key \in ResizeKeys \ StoredKeys(dict) :
               \A a \in LowestFree(dict) :
                   DictAdd(key, DefaultVal, a) =>
                       IF dict.ht[0].addr = 0
                       THEN /\ ~dictIsRehashing(dict')
                            /\ dict'.ht[0].size = DICT_HT_INITIAL_SIZE
                            /\ dict'.ht[1] = _dictReset
                            /\ KeysOf(TableEntries(dict'.ht[0])) = {key}
                       ELSE IF dict.ht[0].used >= dict.ht[0].size
                       THEN /\ dict'.rehashidx = 0
                            /\ SmallestPowerOfTwoAtLeast(dict'.ht[1].size,
                                                         2 * dict.ht[0].used)
                            /\ dict'.ht[0] = dict.ht[0]
                            /\ KeysOf(TableEntries(dict'.ht[1])) = {key}
                       ELSE /\ ~dictIsRehashing(dict')
                            /\ dict'.ht[0].size = dict.ht[0].size
                            /\ dict'.ht[0].addr = dict.ht[0].addr]_vars

C24_Witness ==
    /\ last = [op |-> "dictAdd", ret |-> DICT_OK]
    /\ dict.rehashidx = 0
    /\ dict.ht[0].used = dict.ht[0].size
    /\ dict.ht[1].size = 2 * dict.ht[0].size
    /\ dict.ht[1].used = 1

\* dictAdd started a migration: the dictionary was not rehashing and now is
GrowthStarted == ~dictIsRehashing(dict) /\ dictIsRehashing(dict')

IsNewEmptyTable(ht, size) ==
    /\ SmallestPowerOfTwoAtLeast(ht.size, Max(size, DICT_HT_INITIAL_SIZE))
    /\ ht.sizemask = ht.size - 1
    /\ ht.used = 0
    /\ \A i \in 0 .. ht.size - 1 : ht.table[i] = <<>>

\* C26: a successful dictExpand on a dictionary whose ht[0] has no table
\* installs the new table as ht[0] and leaves rehashidx at -1; on a
\* dictionary with an allocated ht[0] it installs the new empty table as
\* ht[1], sets rehashidx to 0 and leaves ht[0] and every entry untouched.
C26_ExpandInstallsTable ==
    [][(last'.op = "dictExpand" /\ last'.ret = DICT_OK) =>
           \A size \in ExpandSizes : \A a \in LowestFree(dict) :
               DictExpand(size, a) =>
                   IF dict.ht[0].size = 0
                   THEN /\ IsNewEmptyTable(dict'.ht[0], size)
                        /\ dict'.rehashidx = -1
                        /\ dict'.ht[1] = dict.ht[1]
                   ELSE /\ IsNewEmptyTable(dict'.ht[1], size)
                        /\ dict'.rehashidx = 0
                        /\ dict'.ht[0] = dict.ht[0]
                        /\ StoredVals(dict') = StoredVals(dict)]_vars

C26_Witness ==
    /\ last = [op |-> "dictExpand", ret |-> DICT_OK]
    /\ dict.rehashidx = 0
    /\ dict.ht[0].used = 3
    /\ dict.ht[1].size = 2 * DICT_HT_INITIAL_SIZE
    /\ dict.ht[1].used = 0

\* The first initialization: the new table became ht[0]
C26_FirstInitialization ==
    /\ last = [op |-> "dictExpand", ret |-> DICT_OK]
    /\ dict.rehashidx = -1
    /\ dict.ht[0].size = 2 * DICT_HT_INITIAL_SIZE
    /\ dict.ht[1] = _dictReset

\* The keys stored in table t of d
TableKeys(d, t) == KeysOf(TableEntries(d.ht[t]))

\* Both states belong to one migration: a rehash is in flight in both and
\* ht[0] is the same table.
SameMigration ==
    /\ dictIsRehashing(dict) /\ dictIsRehashing(dict')
    /\ dict'.ht[0].addr = dict.ht[0].addr
    /\ dict'.ht[1].addr = dict.ht[1].addr

\* C27: an entry added while a rehash is in flight (at the time dictAddRaw
\* links it) is the head of its bucket in ht[1] and is not in ht[0], and
\* ht[0].used never increases between the start of a migration and its
\* completion; an entry added while no rehash is in flight is in ht[0].
C27_AddsGoToSecondTableWhileRehashing ==
    [][/\ SameMigration => dict'.ht[0].used <= dict.ht[0].used
       /\ (last'.op = "dictAdd" /\ last'.ret = DICT_OK) =>
              \A key \in Keys \ StoredKeys(dict) : \A a \in LowestFree(dict) :
                  DictAdd(key, DefaultVal, a) =>
                      IF dictIsRehashing(dict')
                      THEN /\ key \in TableKeys(dict', 1)
                           /\ key \notin TableKeys(dict', 0)
                      ELSE /\ key \in TableKeys(dict', 0)
                           /\ dict'.ht[1] = _dictReset]_vars

C27_Witness ==
    /\ last = [op |-> "dictAdd", ret |-> DICT_OK]
    /\ dict.rehashidx > 0
    /\ dict.ht[0].used = 2
    /\ dict.ht[1].used = 2
    /\ Lookup(dict, NumKeys) = [t |-> 1, idx |-> BitAnd(dictHashKey(NumKeys), dict.ht[1].sizemask), pos |-> 1]

\* C28: while the caller of a safe iterator deletes only entries the last
\* dictNext returned, no entry is returned twice (a deleted one never
\* again), dictNext returns no freed entry, and once dictNext has returned
\* NULL every entry still stored has been returned.
C28_DeleteReturnedKeepsTraversal ==
    (iter.state = "open" /\ iter.safe) =>
        /\ dict.abort = "none"
        /\ iter.n = Cardinality(iter.seen)
        /\ last.op = "dictNext" => last.ret # Freed
        /\ iter.done => StoredKeys(dict) \subseteq iter.seen

\* The traversal ended after the caller deleted the first entries returned
\* while a rehash is in flight.
C28_Witness ==
    /\ iter.state = "open" /\ iter.safe /\ iter.done
    /\ iter.seen = DelKeys
    /\ StoredKeys(dict) = {NumDelKeys}
    /\ dictIsRehashing(dict)

\* The safe iterators advanced at least once by dictNext and not released
\* (the caller holds one iterator at a time)
RunningSafeIterators ==
    IF iter.state = "open" /\ iter.safe /\ IterStarted(iter) THEN 1 ELSE 0

\* C29: in every reachable state d->iterators is non-negative and equals the
\* number of safe iterators advanced at least once and not yet released.
C29_IteratorsCountsRunningSafeIterators ==
    /\ dict.iterators >= 0
    /\ dict.iterators = RunningSafeIterators

\* C30: the release of an unsafe iterator on which only dictNext was called
\* since its creation leaves the dictionary as it is, the assertion on the
\* fingerprint does not fail; advanced or not, rehash in flight or not.
C30_NextOnlyPassesFingerprint ==
    [][last'.op = "dictReleaseIterator" =>
           /\ dict' = dict
           /\ dict'.abort = "none"
           /\ last'.advanced => iter.fingerprint = dictFingerprint(dict)]_vars

C30_Witness ==
    /\ last = [op |-> "dictReleaseIterator", ret |-> 0, advanced |-> TRUE]
    /\ BothTablesHold
    /\ dict.abort = "none"

\* The release of an iterator that was never advanced
C30_ReleasedUnadvanced ==
    /\ last = [op |-> "dictReleaseIterator", ret |-> 0, advanced |-> FALSE]
    /\ BothTablesHold
    /\ dict.abort = "none"

\* C31: dictScan leaves the dictionary as it is (tables, used counts,
\* rehashidx, iterators), so the same call made again delivers the same
\* entries and returns the same cursor.
C31_ScanLeavesDictionary ==
    [][(last'.op = "dictScan" /\ DictScan) =>
           /\ dict' = dict
           /\ last'.ret = dictScanRes(dict', scan.v).v]_vars

C31_Witness ==
    /\ last.op = "dictScan"
    /\ last.ret # 0
    /\ BothTablesHold
    /\ dict.rehashidx > 0

\* The reference counts of the value handles after the calls cs, for a
\* dictType whose valDup takes a reference and whose valDestructor drops
\* one, destroying the value when none is left: -1 marks a handle that a
\* call has touched after its destruction.
RECURSIVE RefCounts(_, _)
RefCounts(cs, rc) ==
    IF cs = <<>> THEN rc
    ELSE IF rc[Head(cs).val] <= 0
         THEN [rc EXCEPT ![Head(cs).val] = -1]
    ELSE IF Head(cs).call = "dictSetVal"
         THEN RefCounts(Tail(cs), [rc EXCEPT ![Head(cs).val] = @ + 1])
    ELSE RefCounts(Tail(cs), [rc EXCEPT ![Head(cs).val] = @ - 1])

\* C32: dictReplace on a stored key calls dictSetVal with the new value
\* and then dictFreeVal with the old one, never the other way round; with
\* reference-counted values of which the dictionary holds the only
\* reference, the new value is never touched after its destruction, also
\* when it is the old value.
C32_StoreBeforeDestroy ==
    [][last'.op = "dictReplace" =>
           \A key \in ValKeys \cap StoredKeys(dict) :
               \A val \in Vals, a \in LowestFree(dict) :
                   DictReplace(key, val, a) =>
                       \E r \in {dictReplaceRes(dict, key, val, dict_can_resize, a)} :
                       \E old \in StoredVals(dict)[key] :
                           /\ r.calls = <<SetValCall(val), FreeValCall(old)>>
                           /\ last'.freed = <<old>>
                           /\ StoredVals(dict')[key] = {val}
                           /\ RefCounts(r.calls, [v \in Vals |-> 1])[val] >= 1]_vars

\* The value stored under the only key was replaced with itself
C32_Witness ==
    /\ last = [op |-> "dictReplace", ret |-> 0, freed |-> <<NumVals>>]
    /\ StoredKeys(dict) = {NumValKeys}
    /\ StoredVals(dict)[NumValKeys] = {NumVals}

\* The number of times the entry of key occurs in the sequence es
Occurrences(es, key) == Cardinality({i \in 1 .. Len(es) : es[i].key = key})

\* C33: dictEmpty, rehashing or not, destroys every stored entry exactly
\* once and nothing else, and leaves the dictionary as dictCreate makes it.
C33_EmptyDestroysAllAndResets ==
    [][(last'.op = "dictEmpty" /\ DictEmpty) =>
           /\ dict' = _dictInit
           /\ Len(last'.freed) = dictSize(dict)
           /\ \A key \in Keys :
                  Occurrences(last'.freed, key) =
                      IF key \in StoredKeys(dict) THEN 1 ELSE 0]_vars

\* A dictAdd on the dictionary dictEmpty left, which was rehashing with
\* entries in both tables, does what it does on a new dictionary.
C33_AddAfterEmpty ==
    [][(last.op = "dictEmpty" /\ last'.op = "dictAdd") =>
           \A key \in Keys : \A a \in LowestFree(dict) :
               DictAdd(key, DefaultVal, a) =>
                   /\ last'.ret = DICT_OK
                   /\ dict' = dictAddRes(_dictInit, key, DefaultVal,
                                         dict_can_resize, a).d]_vars

\* dictEmpty destroyed all the keys, the entry of key NumKeys last. Within
\* one table the bucket of key NumKeys (hash 4) comes before the bucket of
\* key 2 (hash 5): a rehash was in flight, with entries in both tables.
C33_Witness ==
    /\ last.op = "dictEmpty"
    /\ dict = _dictInit
    /\ Len(last.freed) = NumKeys
    /\ last.freed[Len(last.freed)].key = NumKeys

\* C34: no key is stored twice: the chains of ht[0] and ht[1] together hold
\* at most one entry of any key.
C34_NoKeyStoredTwice ==
    \A key \in AllKeys : Occurrences(AllEntries(dict), key) <= 1

\* dictReplaceRaw found its key in ht[1] next to another entry, with a
\* third one still in ht[0].
C34_Witness ==
    /\ last = [op |-> "dictReplaceRaw", ret |-> 1]
    /\ dictIsRehashing(dict)
    /\ dict.ht[0].used = 1
    /\ dict.ht[1].used = 2

\* C35: for each table, ht[t].used is the number of entries in the chains of
\* ht[t].table.
C35_UsedCountsEntries ==
    \A t \in {0, 1} : dict.ht[t].used = Len(TableEntries(dict.ht[t]))

C35_Witness ==
    /\ last = [op |-> "dictRehash", ret |-> 1]
    /\ dict.ht[0].used = 2
    /\ dict.ht[1].used = 2
    /\ Len(TableEntries(dict.ht[1])) = 2

\* C36: while a rehash is in flight 0 <= rehashidx <= ht[0].size and every
\* bucket of ht[0] below rehashidx is empty; dictRehash never fails its
\* assertion ht[0].size > rehashidx and never reads past the bucket array.
C36_RehashidxWithinFirstTable ==
    /\ dict.abort \notin {"assert_rehashidx", "read_past_table"}
    /\ dictIsRehashing(dict) =>
          /\ 0 <= dict.rehashidx
          /\ dict.rehashidx <= dict.ht[0].size
          /\ \A i \in 0 .. dict.rehashidx - 1 : dict.ht[0].table[i] = <<>>
          /\ dict.ht[0].used > 0 =>
                 \E i \in dict.rehashidx .. dict.ht[0].size - 1 :
                     dict.ht[0].table[i] # <<>>

\* A step has passed two buckets and entries are left in ht[0] above them
C36_Witness ==
    /\ last.op = "dictRehash"
    /\ dict.rehashidx >= 2
    /\ dict.ht[0].used >= 1
    /\ dict.ht[1].used >= 1

\* rehashidx has reached ht[0].size: the last bucket was moved (reached by
\* the caller of SpecForce, whose key 7 lies in the last of 4 buckets)
C36_RehashidxAtEnd ==
    /\ dictIsRehashing(dict)
    /\ dict.rehashidx = dict.ht[0].size

\* The calls of a full scan of d from cursor v on, d left alone meanwhile:
\* [calls, buckets, keys], the number of dictScan calls until one returns
\* 0, the buckets of ht[0] they visit and the keys they pass to fn, in
\* order. (A scan that is not over after MaxCursor calls is cut there.)
RECURSIVE ScanFrom(_, _, _, _)
ScanFrom(d, v, buckets, keys) ==
    LET After(r, bs) ==
            IF r.v = 0 \/ Len(bs) > MaxCursor
            THEN [calls |-> Len(bs), buckets |-> bs, keys |-> keys \o r.keys]
            ELSE ScanFrom(d, r.v, bs, keys \o r.keys)
    IN After(dictScanRes(d, v), Append(buckets, BitAnd(v, d.ht[0].sizemask)))

FullScan(d) == ScanFrom(d, 0, <<>>, <<>>)

\* Every element of S occurs exactly once in the sequence q
ExactlyOnce(q, S) == Len(q) = Cardinality(S) /\ SeqRange(q) = S

\* The sizemask of the smaller table in use
SmallerMask(d) ==
    IF dictIsRehashing(d) /\ d.ht[1].size < d.ht[0].size THEN d.ht[1].sizemask
    ELSE d.ht[0].sizemask

\* The cursor a dictScan call returns has no bit outside the sizemask of
\* the smaller table and, unless it is 0, a higher rank than the one passed.
ScanCursorAdvances ==
    last'.op = "dictScan" =>
        \E r \in {dictScanRes(dict, scan.v)} :
            /\ last'.ret = r.v
            /\ 0 <= r.v /\ r.v <= SmallerMask(dict)
            /\ r.v = 0 \/ CursorRank(r.v) > CursorRank(scan.v)

\* A full scan of the dictionary, left alone, takes as many calls as ht[0]
\* has buckets, visits every bucket once and delivers every entry once.
FullScanCoversTable(d) ==
    \E f \in {FullScan(d)} :
        /\ f.calls = d.ht[0].size
        /\ ExactlyOnce(f.buckets, 0 .. d.ht[0].size - 1)
        /\ ExactlyOnce(f.keys, StoredKeys(d))

\* C37 (amended): a cursor returned by dictScan has no bit set outside the
\* sizemask of the smaller table and a higher bit-reversed value than the
\* cursor passed in unless it is 0; on a dictionary of table size S that
\* holds at least one entry and is neither rehashing nor modified, a full
\* scan takes exactly S calls, visits every bucket exactly once and delivers
\* every entry exactly once.
C37_FullScanOfNonEmptyTable ==
    [][/\ ScanCursorAdvances
       /\ (~dictIsRehashing(dict) /\ dictSize(dict) > 0) =>
              FullScanCoversTable(dict)]_vars

\* C37 (as stated): the same for every dictionary of table size S that is
\* not rehashing, with or without entries.
C37_FullScanOfAnyTable ==
    [][/\ ScanCursorAdvances
       /\ (~dictIsRehashing(dict) /\ dict.ht[0].size > 0) =>
              FullScanCoversTable(dict)]_vars

\* The last call of a scan of 8 buckets that hold two entries
C37_Witness ==
    /\ last = [op |-> "dictScan", ret |-> 0]
    /\ ~dictIsRehashing(dict)
    /\ dict.ht[0].size = 2 * DICT_HT_INITIAL_SIZE
    /\ dict.ht[0].used = NumScanKeys
    /\ FullScan(dict).calls = 2 * DICT_HT_INITIAL_SIZE

\* What a migration has left to do: the non-empty buckets of ht[0] and the
\* completion swap. It is at most ht[0].size + 1.
StepsLeft(d) == Cardinality(NonEmptyBuckets(d.ht[0])) + 1

\* A dictAdd, dictFind or dictDelete call on a dictionary with a rehash in
\* flight and no safe iterator running
OrdinaryCallWhileRehashing ==
    /\ last'.op \in {"dictAdd", "dictFind", "dictDelete"}
    /\ dictIsRehashing(dict)
    /\ dict.iterators = 0

\* The call made the completion swap: ht[0] is now the table that was ht[1]
MigrationCompleted == dict'.ht[0].addr = dict.ht[1].addr

\* C38 (amended): with no safe iterator open, every dictAdd, dictFind or
\* dictDelete call during a migration either leaves at least one non-empty
\* bucket of ht[0] fewer or completes the migration, so that at most
\* ht[0].size + 1 such calls complete it; rehashidx is then -1, unless the
\* call that completed it is a dictAdd that started the next migration.
C38_OrdinaryCallsCompleteMigration ==
    [][OrdinaryCallWhileRehashing =>
           /\ StepsLeft(dict) <= dict.ht[0].size + 1
           /\ \/ SameMigration /\ StepsLeft(dict') < StepsLeft(dict)
              \/ /\ MigrationCompleted
                 /\ StepsLeft(dict) = 1
                 /\ ~dictIsRehashing(dict')
                    \/ (last'.op = "dictAdd" /\ dict'.rehashidx = 0
                           /\ dict'.ht[0].used >= dict'.ht[0].size)]_vars

\* C38 (as stated): ... or completes the migration and leaves rehashidx -1.
C38_OrdinaryCallsEndRehashing ==
    [][OrdinaryCallWhileRehashing =>
           /\ StepsLeft(dict) <= dict.ht[0].size + 1
           /\ \/ SameMigration /\ StepsLeft(dict') < StepsLeft(dict)
              \/ ~dictIsRehashing(dict')]_vars

\* A dictFind completed a migration of a table of 8 buckets
C38_Witness ==
    /\ last.op = "dictFind"
    /\ ~dictIsRehashing(dict)
    /\ dict.ht[0].size = DICT_HT_INITIAL_SIZE
    /\ dict.ht[0].used = 3
    /\ dict.ht[0].addr = 2

\* The number of the batches that returned 1
RECURSIVE CountOnes(_)
CountOnes(q) == IF q = <<>> THEN 0 ELSE (IF Head(q) = 1 THEN 1 ELSE 0) + CountOnes(Tail(q))

\* C40: dictRehashMilliseconds(d, ms) calls dictRehash(d, 100) until a call
\* returns 0 or the time is over; it returns 100 times the number of the
\* calls that returned 1, hence 0 when d is not rehashing or the first call
\* completes the rehash; if the time is never over it leaves rehashidx -1.
C40_MillisecondsCountsBatches ==
    [][last'.op = "dictRehashMilliseconds" =>
           LET b == last'.batches IN
           /\ Len(b) >= 1
           /\ \A i \in 1 .. Len(b) - 1 : b[i] = 1
           /\ b[Len(b)] = 0 <=> ~last'.stopped
           /\ last'.ret = RehashBatch * CountOnes(b)
           /\ ~dictIsRehashing(dict) => last'.ret = 0 /\ dict' = dict
           /\ b[1] = 0 => last'.ret = 0 /\ ~dictIsRehashing(dict')
           /\ b[Len(b)] = 0 => ~dictIsRehashing(dict')
           /\ ~last'.stopped => dict'.rehashidx = -1]_vars

\* A call without a limit has moved the 128 buckets in two batches
C40_Witness ==
    /\ last.op = "dictRehashMilliseconds"
    /\ last.ret = RehashBatch
    /\ last.batches = <<1, 0>>
    /\ ~dictIsRehashing(dict)
    /\ dict.ht[0].size = 256

\* A call stopped by the clock after one batch, the rehash still in flight
C40_StoppedByClock ==
    /\ last.op = "dictRehashMilliseconds"
    /\ last.ret = RehashBatch
    /\ last.batches = <<1>>
    /\ last.stopped
    /\ dict.rehashidx = RehashBatch

\* The value of a key stored with the values S: 0 for a key that is not
\* stored, -1 for a key stored with more than one value.
ValueOf(S) ==
    IF S = {} THEN 0
    ELSE IF Cardinality(S) = 1 THEN CHOOSE v \in S : TRUE
    ELSE -1

MapOfEntries(es) ==
    [k \in AllKeys |-> ValueOf({es[i].val : i \in {j \in 1 .. Len(es) : es[j].key = k}})]

\* The key-to-value mapping the dictionary holds
MapOf(d) == MapOfEntries(AllEntries(d))

\* The keys a map holds
KeysOfMap(m) == {k \in DOMAIN m : m[k] # 0}

\* What the calls of a step on the map return is what the reference map ref
\* gives for them: dictAdd succeeds when the reference map takes the key,
\* dictReplace returns 1 when the reference map gets a new key, dictDelete
\* succeeds when the reference map loses the key, dictFind and
\* dictFetchValue find what the reference map holds under the key.
ReturnsAsReference ==
    /\ last'.op = "dictAdd" =>
          last'.ret = IF KeysOfMap(ref') # KeysOfMap(ref) THEN DICT_OK ELSE DICT_ERR
    /\ last'.op = "dictReplace" =>
          last'.ret = IF KeysOfMap(ref') # KeysOfMap(ref) THEN 1 ELSE 0
    /\ last'.op = "dictDelete" =>
          last'.ret = IF KeysOfMap(ref') # KeysOfMap(ref) THEN DICT_OK ELSE DICT_ERR
    /\ last'.op = "dictFind" =>
          \A key \in ValKeys :
              DictFind(key) => last'.ret = IF ref[key] # 0 THEN 1 ELSE 0
    /\ last'.op = "dictFetchValue" =>
          \A key \in ValKeys : DictFetchValue(key) => last'.ret = ref[key]

\* C39: the dictionary refines a finite map. It holds the mapping of the
\* reference map at all times; dictAdd, dictReplace, dictDelete, dictFind
\* and dictFetchValue return what the reference map returns, whatever
\* dictExpand, dictResize, dictRehash, dictEnableResize, dictDisableResize
\* and safe iterator calls come in between; no call other than dictAdd,
\* dictReplace and dictDelete changes the mapping.
C39_RefinesFiniteMap ==
    /\ [](MapOf(dict) = ref)
    /\ [][/\ ReturnsAsReference
          /\ last'.op \notin {"dictAdd", "dictReplace", "dictDelete"} =>
                 dict'.ht = dict.ht \/ MapOf(dict') = MapOf(dict)]_vars

\* A value fetched from the second table while a rehash is in flight, a safe
\* iterator is running and resizing is switched off
C39_Witness ==
    /\ last = [op |-> "dictFetchValue", ret |-> NumVals]
    /\ dictIsRehashing(dict)
    /\ dict.iterators = 1
    /\ ~dict_can_resize
    /\ ref[1] = 1
    /\ ref[NumValKeys] = NumVals
    /\ dict.ht[0].used = 1
    /\ dict.ht[1].used = 1

====
